---- MODULE Spec2Model ----
(***************************************************************************)
(* Saltdig: Salt ledger, service orders, market offers, spec-loop deposits *)
(* and the USDC escrow shadow records, modelled from the route handlers    *)
(* and library functions of the repository.                                *)
(*                                                                         *)
(* Amounts of Salt are whole numbers.  The amount of a wallet transfer     *)
(* request is a JSON number, carried here in units of 1/Scale so that      *)
(* fractional requests exist; Math.floor is FloorUnits.                    *)
(***************************************************************************)
EXTENDS Integers, Sequences, FiniteSets, Bags, TLC

\* ---------------------------------------------------------------- bounds
Scale == 2
MaxJournal == 3
MaxOrders == 2
MaxOffers == 1
LedgerMaxJournal == 2
WalletMaxJournal == 2
MaxDeposits == 2
MaxReqs == 2
LoopMaxReqs == 1
AllMaxRows == 3
UsdcMaxOrders == 1
MaxNow == 2
CronMaxOrders == 2
CronMaxNow == 4
PlanMaxRows == 3
PlanMaxSubmissions == 2
PlanMaxReqs == 2
ImpactMaxSeeds == 2
CompMaxReqs == 2
BusMaxEmits == 2
RateMaxCalls == 7
RateMaxNow == 4
AcceptMaxReqs == 2
SubmitMaxRows == 3
EntryMaxNow == 2
ExtractMaxEdges == 3
VaultMaxNow == 4

\* ------------------------------------------------------ program constants
MAX_TRANSFER == 10000
\* the default deadline of an escrow, in days: `7 * 86400` seconds
DEFAULT_DEADLINE == 7
\* the reconciler's `autoReleaseSeconds = 72 * 3600`, in days
autoReleaseSeconds == 3
\* the contract's `autoReleaseSeconds = 72 hours`, in days
AUTO_RELEASE_PERIOD == 3
\* SaltyEscrow: `platformFeeBps = 500`, `workerStakeBps = 1000`, the 1 % of
\* cancelBounty, the divisor of the basis points, the cap of updatePlatformFee
InitialPlatformFeeBps == 500
workerStakeBps == 1000
CancellationFeeBps == 100
BpsDenominator == 10000
MaxPlatformFeeBps == 2000
\* `RATE_LIMITS.prediction`: 5 requests per `60 * 1000` ms, the window in
\* half minutes
PredictionLimit == 5
PredictionWindow == 2

\* ----------------------------------------------------------- static world
Null == "null"
Agents == {"P", "B", "W", "N"}
SaltActors == {"P", "B", "W"}
Wallets == {"P", "B", "W"}

SaltListings == {"L1", "L2"}
UsdcListings == {"U1", "U2"}
\* the listings of type bounty
BountyListings == {"K1"}
ListingIds == SaltListings \cup UsdcListings \cup BountyListings

\* market_listings rows: the columns that never change after creation
ListingRow ==
  [l \in ListingIds |->
     CASE l = "L1" -> [agent_id |-> "P", listing_mode |-> "service", price |-> 2, currency |-> "salt"]
       [] l = "L2" -> [agent_id |-> "B", listing_mode |-> "trade",   price |-> 3, currency |-> "salt"]
       [] l = "U1" -> [agent_id |-> "P", listing_mode |-> "service", price |-> 1, currency |-> "usdc"]
       [] l = "U2" -> [agent_id |-> "P", listing_mode |-> "service", price |-> 1, currency |-> "usdc"]
       [] l = "K1" -> [agent_id |-> "P", listing_mode |-> "service", price |-> 300, currency |-> "salt"]]

InitBalance ==
  [a \in Agents |->
     CASE a = "P" -> MAX_TRANSFER + 1
       [] a = "B" -> 5
       [] a = "W" -> 2
       [] a = "N" -> 0]

\* inputs of the requests
TransferAmounts == {0 - Scale, 0, 1, Scale, 2 * Scale + 1, 5 * Scale + 1,
                    MAX_TRANSFER * Scale, MAX_TRANSFER * Scale + 1}
OfferPrices == {0, 3}
DepositAmounts == {0, 2, 6}
ConsumeAmounts == {0 - 1, 1, 2}
Slots == 1 .. MaxReqs

VARIABLES
  balance,    \* agents.nacl_balance
  journal,    \* nacl_transactions rows (a bag)
  listings,   \* market_listings: status, completed_count
  orders,     \* service_orders rows
  offers,     \* market_offers rows
  deposits,   \* spec_deposits rows
  reqs,       \* spec-loop calls suspended at an await
  resp,       \* the response of the last completed request
  chain,      \* SaltyEscrow.bounties
  records,    \* usdc_transactions rows
  now,        \* block.timestamp / Date.now()
  cron,       \* the run of the escrow-release reconciler
  milestones, \* milestones rows
  submissions,\* milestone_submissions rows
  mreqs,      \* approveMilestone calls suspended at an await
  analysis,   \* the last impact analysis: its inputs and its result
  competition,\* the competitions row of listing K1
  entries,    \* competition_entries rows
  freqs,      \* calls of the competition library suspended at an await
  listeners,  \* EventBus.listeners: per channel, the listeners in insertion order
  inbox,      \* per listener, the events it was called with
  emitted,    \* the last emit: its channel, who was called, what came back
  windows,    \* the rate limiter's map: per key, count and resetAt
  calls,      \* per key, the rateLimit calls so far: time and answer
  areqs,      \* accepts of an order suspended at an await
  extraction, \* the last bounty extraction: its inputs and its result
  vault       \* SaltyEscrow with its USDC: bounties, fees, token balance

\* the state of the reconciler and of the milestone plans
planVars == <<milestones, submissions, mreqs>>
\* the state of the library modules
compVars == <<competition, entries, freqs>>
busVars == <<listeners, inbox, emitted>>
\* the state of the in-process services
rateVars == <<windows, calls>>
svcVars == <<busVars, rateVars, areqs>>
\* the state of the graph tools and of the contract with its token
sideVars == <<analysis, extraction, vault>>
libVars == <<sideVars, compVars, svcVars>>
extVars == <<cron, planVars, libVars>>
vars == <<balance, journal, listings, orders, offers, deposits, reqs, resp,
          chain, records, now, extVars>>
saltVars == <<balance, journal, listings, orders, offers, deposits, reqs>>

\* ------------------------------------------------------------- helpers
RECURSIVE SumOver(_, _)
SumOver(f, S) ==
  IF S = {} THEN 0
  ELSE LET x == CHOOSE y \in S : TRUE IN f[x] + SumOver(f, S \ {x})

TotalBalance(b) == SumOver(b, Agents)

IsIssuance(e) == e.from = Null /\ e.to # Null
IsBurn(e) == e.from # Null /\ e.to = Null

\* total amount of the rows of a journal that satisfy a test; the journal is
\* the bag of the nacl_transactions rows
RECURSIVE IssuedIn(_, _)
IssuedIn(j, S) ==
  IF S = {} THEN 0
  ELSE LET e == CHOOSE x \in S : TRUE IN
       (IF IsIssuance(e) THEN e.amount * CopiesIn(e, j) ELSE 0)
         + IssuedIn(j, S \ {e})

RECURSIVE BurnedIn(_, _)
BurnedIn(j, S) ==
  IF S = {} THEN 0
  ELSE LET e == CHOOSE x \in S : TRUE IN
       (IF IsBurn(e) THEN e.amount * CopiesIn(e, j) ELSE 0)
         + BurnedIn(j, S \ {e})

\* total amount of the issuance rows (from = null)
Issued(j) == IssuedIn(j, BagToSet(j))

\* total amount of the escrow/burn rows (to = null)
Burned(j) == BurnedIn(j, BagToSet(j))

\* a response: the operation, the caller (kept for the escrow routes), success
Response(op, agent, ok, err) ==
  [op |-> op, agent |-> agent, amt |-> 0, ok |-> ok, err |-> err,
   chainCall |-> FALSE]

\* the response of the wallet route, with the amount that was asked for
TransferResponse(q, ok, err) ==
  [op |-> "transfer", agent |-> Null, amt |-> q, ok |-> ok, err |-> err,
   chainCall |-> FALSE]

NoResponse == Response("none", Null, TRUE, "")

Entry(from, to, amount, kind) ==
  [from |-> from, to |-> to, amount |-> amount, kind |-> kind]

\* Math.floor of a request amount given in 1/Scale units
FloorUnits(q) == q \div Scale

\* ------------------------------------------------------------- ledger
\* db.transferNacl: the guard, the balances after and the journal after
TransferAllowed(b, from, to, amount) ==
  /\ amount > 0
  /\ amount <= MAX_TRANSFER
  /\ from # to
  /\ from # Null => b[from] >= amount

BalanceAfterTransfer(b, from, to, amount) ==
  [a \in Agents |->
     b[a] - (IF a = from THEN amount ELSE 0) + (IF a = to THEN amount ELSE 0)]

transferNacl(from, to, amount, kind) ==
  /\ TransferAllowed(balance, from, to, amount)
  /\ balance' = BalanceAfterTransfer(balance, from, to, amount)
  /\ journal' = journal (+) SetToBag({Entry(from, to, amount, kind)})

\* db.createNaclTransaction: a journal row, no balance change
createNaclTransaction(from, to, amount, kind) ==
  journal' = journal (+) SetToBag({Entry(from, to, amount, kind)})


\* ------------------------------------------------- wallet transfer route
\* POST /wallet/transfer: `!amount || typeof amount !== "number" || amount <= 0`
TransferAmountPositive(q) == q > 0

\* variant: no upper limit on the request
TransferAmountOverMax_NoLimit(q) == FALSE

\* `amount > 10000`
TransferAmountOverMax(q) == q > MAX_TRANSFER * Scale

\* the amount handed to db.transferNacl: Math.floor(amount)
TransferAmountArg(q) == FloorUnits(q)

\* `recipient.id === result.agent.id`
TransferToSelf(a, to) == to = a

WalletTransferError(a, to, q) ==
  IF ~TransferAmountPositive(q) THEN "positive amount required"
  ELSE IF TransferAmountOverMax(q) THEN "maximum transfer"
  ELSE IF TransferToSelf(a, to) THEN "transfer to yourself"
  ELSE IF ~TransferAllowed(balance, a, to, TransferAmountArg(q)) THEN "transfer failed"
  ELSE ""

WalletTransferPOST(a, to, q) ==
  LET err == WalletTransferError(a, to, q) IN
  /\ IF err # ""
       THEN UNCHANGED <<balance, journal>>
       ELSE /\ transferNacl(a, to, TransferAmountArg(q), "transfer")
  /\ resp' = TransferResponse(q, err = "", err)
  /\ UNCHANGED <<listings, orders, offers, deposits, reqs, chain, records, now, extVars>>

\* ------------------------------------------------- service orders
NonTerminalOrder(o) == o.status \in {"pending", "in_progress", "delivered"}

\* POST /market/listings/[id]/order: the checks before the escrow transfer
OrderPlaceError(a, l, hasRequest) ==
  IF ListingRow[l].listing_mode # "service" THEN "not a service listing"
  ELSE IF listings[l].status # "active" THEN "listing not active"
  ELSE IF ListingRow[l].agent_id = a THEN "own service"
  ELSE IF ~hasRequest THEN "request is required"
  ELSE IF balance[a] < ListingRow[l].price THEN "insufficient salt"
  ELSE IF ~TransferAllowed(balance, a, Null, ListingRow[l].price) THEN "transfer threw"
  ELSE ""

OrderPOST(a, l, hasRequest) ==
  LET err == OrderPlaceError(a, l, hasRequest)
      price == ListingRow[l].price
  IN
  /\ IF err # ""
       THEN UNCHANGED <<balance, journal, orders>>
       ELSE /\ transferNacl(a, Null, price, "escrow")
            /\ orders' = Append(orders,
                 [listing_id |-> l, buyer_id |-> a,
                  seller_id |-> ListingRow[l].agent_id,
                  price |-> price, status |-> "pending"])
  /\ resp' = Response("order", Null, err = "", err)
  /\ UNCHANGED <<listings, offers, deposits, reqs, chain, records, now, extVars>>

\* PATCH /market/orders/[id]: the status precondition of each action
OrderActionStatusOk(action, status) ==
  CASE action = "deliver" -> status \in {"pending", "in_progress"}
    [] action = "accept"  -> status = "delivered"
    [] action = "start"   -> status = "pending"
    [] action = "dispute" -> TRUE
    [] OTHER -> FALSE

\* PATCH /market/orders/[id]: the role check of each action
OrderActionRoleOk(action, o, a) ==
  CASE action = "deliver" -> o.seller_id = a
    [] action = "accept"  -> o.buyer_id = a
    [] action = "start"   -> o.seller_id = a
    [] action = "dispute" -> o.buyer_id = a \/ o.seller_id = a
    [] OTHER -> TRUE

OrderActionTarget(action) ==
  CASE action = "deliver" -> "delivered"
    [] action = "accept"  -> "accepted"
    [] action = "start"   -> "in_progress"
    [] action = "dispute" -> "disputed"
    [] OTHER -> "none"

\* the market_listings update made by a successful accept
ListingAfterAccept(row) ==
  [row EXCEPT !.completed_count = row.completed_count + 1]

OrderPatchError(a, id, action, hasResponse) ==
  LET o == orders[id] IN
  IF action \notin {"deliver", "accept", "start", "dispute"} THEN "unknown action"
  ELSE IF ~OrderActionRoleOk(action, o, a) THEN "forbidden"
  ELSE IF ~OrderActionStatusOk(action, o.status) THEN "bad status"
  ELSE IF action = "deliver" /\ ~hasResponse THEN "response is required"
  ELSE IF action = "accept" /\ ~TransferAllowed(balance, Null, o.seller_id, o.price)
       THEN "transfer threw"
  ELSE ""

OrderActions == {"deliver", "accept", "start", "dispute", "cancel"}

OrderPATCH(a, id, action, hasResponse) ==
  LET o == orders[id]
      err == OrderPatchError(a, id, action, hasResponse)
  IN
  /\ id \in 1 .. Len(orders)
  /\ IF err # ""
       THEN UNCHANGED <<balance, journal, orders, listings>>
       ELSE /\ orders' = [orders EXCEPT ![id].status = OrderActionTarget(action)]
            /\ IF action = "accept"
                 THEN /\ transferNacl(Null, o.seller_id, o.price, "service_payment")
                      /\ listings' = [listings EXCEPT
                           ![o.listing_id] = ListingAfterAccept(listings[o.listing_id])]
                 ELSE UNCHANGED <<balance, journal, listings>>
  /\ resp' = Response(action, Null, err = "", err)
  /\ UNCHANGED <<offers, deposits, reqs, chain, records, now, extVars>>

\* ------------------------------------------------- market offers
\* POST /market/listings/[id]/offers: the listing and body checks and the
\* insert
OfferChecked(a, l, hasText, price) ==
  LET err == IF listings[l].status # "active" THEN "listing not active"
             ELSE IF ~hasText THEN "offer_text is required"
             ELSE ""
  IN
  /\ IF err # ""
       THEN UNCHANGED offers
       ELSE /\ offers' = Append(offers,
                 [listing_id |-> l, agent_id |-> a, price |-> price,
                  status |-> "pending"])
  /\ resp' = Response("offer", Null, err = "", err)

\* POST /market/listings/[id]/offers of an agent the rate limiter lets pass
OfferPOST(a, l, hasText, price) ==
  /\ OfferChecked(a, l, hasText, price)
  /\ UNCHANGED <<balance, journal, listings, orders, deposits, reqs,
                 chain, records, now, extVars>>

OfferStatusMap(action) ==
  CASE action = "accept" -> "accepted"
    [] action = "reject" -> "rejected"
    [] action = "counter" -> "countered"
    [] OTHER -> "none"

\* `action === "accept" && offer.price` with parseInt(offer.price) > 0
OfferTransfers(action, price) == action = "accept" /\ price > 0

\* variant: the price of an accepted offer goes to the system
OfferPayee_System(f) == Null

\* the recipient of the price of an accepted offer: `listing.agent_id`
OfferPayee(f) == ListingRow[f.listing_id].agent_id

OfferRespondError(a, id, action) ==
  LET f == offers[id]
      owner == ListingRow[f.listing_id].agent_id
  IN
  IF owner # a THEN "forbidden"
  ELSE IF action \notin {"accept", "reject", "counter"} THEN "unknown action"
  ELSE IF OfferTransfers(action, f.price)
          /\ ~TransferAllowed(balance, f.agent_id, OfferPayee(f), f.price)
       THEN "buyer lacks NaCl"
  ELSE ""

OfferActions == {"accept", "reject", "counter", "withdraw"}

\* POST /market/offers/[id]/respond
OfferRespondPOST(a, id, action) ==
  LET f == offers[id]
      owner == ListingRow[f.listing_id].agent_id
      err == OfferRespondError(a, id, action)
  IN
  /\ id \in 1 .. Len(offers)
  /\ IF err # ""
       THEN UNCHANGED <<balance, journal, offers>>
       ELSE /\ offers' = [offers EXCEPT ![id].status = OfferStatusMap(action)]
            /\ IF OfferTransfers(action, f.price)
                 THEN /\ transferNacl(f.agent_id, OfferPayee(f), f.price, "trade")
                 ELSE UNCHANGED <<balance, journal>>
  /\ resp' = Response("offer_" \o action, Null, err = "", err)
  /\ UNCHANGED <<listings, orders, deposits, reqs, chain, records, now, extVars>>

\* ------------------------------------------------- spec loop
IdleReq == [op |-> "idle", pc |-> "idle", agent |-> Null, listing |-> Null,
            amount |-> 0, snap |-> 0, dep |-> 0]

\* a new call takes the lowest free slot
FreeSlot(s) == reqs[s].op = "idle" /\ \A t \in Slots : t < s => reqs[t].op # "idle"

InFlightDeposits == Cardinality({s \in Slots : reqs[s].op = "deposit"
                                               /\ reqs[s].pc \in {"debit", "insert"}})

\* db.getActiveSpecDeposit: the rows it may return for a listing
ActiveDeposits(l) ==
  {d \in 1 .. Len(deposits) :
     deposits[d].listing_id = l /\ deposits[d].status = "active"}

\* POST /spec/deposit: `!amount || amount <= 0`
DepositAmountValid(amt) == amt > 0

\* variant: the balance check of createSpecDeposit left out
DepositFundsOk_Unchecked(bal, amt) == TRUE

\* createSpecDeposit: `agent.nacl_balance < amount` throws
DepositFundsOk(bal, amt) == ~(bal < amt)

\* createSpecDeposit: the balance written by db.updateAgent
DepositDebitValue(snap, amt) == snap - amt

DepositError(a, l, amt) ==
  IF ~DepositAmountValid(amt) THEN "valid amount required"
  ELSE IF ListingRow[l].agent_id # a THEN "only the listing owner"
  ELSE IF listings[l].status \notin {"active", "clarifying"} THEN "bad listing status"
  ELSE IF ~DepositFundsOk(balance[a], amt) THEN "insufficient balance"
  ELSE ""

\* createSpecDeposit up to the read of the agent row
DepositBegin(s, a, l, amt) ==
  LET err == DepositError(a, l, amt) IN
  /\ FreeSlot(s)
  /\ IF err # ""
       THEN /\ resp' = Response("deposit", Null, FALSE, err)
            /\ UNCHANGED reqs
       ELSE /\ reqs' = [reqs EXCEPT ![s] =
                 [op |-> "deposit", pc |-> "debit", agent |-> a, listing |-> l,
                  amount |-> amt, snap |-> balance[a], dep |-> 0]]
            /\ UNCHANGED resp
  /\ UNCHANGED <<balance, journal, listings, orders, offers, deposits,
                 chain, records, now, extVars>>

\* db.updateAgent(agentId, { nacl_balance: agent.nacl_balance - amount })
DepositDebit(s) ==
  LET r == reqs[s] IN
  /\ r.op = "deposit" /\ r.pc = "debit"
  /\ balance' = [balance EXCEPT ![r.agent] = DepositDebitValue(r.snap, r.amount)]
  /\ reqs' = [reqs EXCEPT ![s].pc = "insert"]
  /\ UNCHANGED <<journal, listings, orders, offers, deposits, resp,
                 chain, records, now, extVars>>

\* db.createSpecDeposit
DepositInsert(s) ==
  LET r == reqs[s] IN
  /\ r.op = "deposit" /\ r.pc = "insert"
  /\ deposits' = Append(deposits,
       [listing_id |-> r.listing, agent_id |-> r.agent, amount |-> r.amount,
        consumed |-> 0, status |-> "active"])
  /\ reqs' = [reqs EXCEPT ![s].pc = "clarify", ![s].dep = Len(deposits) + 1]
  /\ UNCHANGED <<balance, journal, listings, orders, offers, resp,
                 chain, records, now, extVars>>

\* db.updateMarketListing(listingId, { status: 'clarifying' })
DepositClarify(s) ==
  LET r == reqs[s] IN
  /\ r.op = "deposit" /\ r.pc = "clarify"
  /\ listings' = [listings EXCEPT ![r.listing].status = "clarifying"]
  /\ reqs' = [reqs EXCEPT ![s] = IdleReq]
  /\ resp' = Response("deposit", Null, TRUE, "")
  /\ UNCHANGED <<balance, journal, orders, offers, deposits, chain, records, now, extVars>>

\* consumeSpecDeposit: status after the update
ConsumeStatus(newConsumed, amount) ==
  IF newConsumed >= amount THEN "consumed" ELSE "active"

\* consumeSpecDeposit: `amount > remaining` throws
ConsumeFits(dep, amt) == ~(amt > dep.amount - dep.consumed)

consumeSpecDeposit(l, amt) ==
  IF ActiveDeposits(l) = {}
    THEN /\ resp' = Response("consume", Null, FALSE, "no active deposit")
         /\ UNCHANGED <<balance, journal, listings, orders, offers, deposits, reqs,
                        chain, records, now, extVars>>
    ELSE \E d \in ActiveDeposits(l) :
      LET dep == deposits[d] IN
      IF ~ConsumeFits(dep, amt)
        THEN /\ resp' = Response("consume", Null, FALSE, "insufficient deposit")
             /\ UNCHANGED <<balance, journal, listings, orders, offers, deposits,
                            reqs, chain, records, now, extVars>>
        ELSE /\ deposits' = [deposits EXCEPT
                  ![d].consumed = dep.consumed + amt,
                  ![d].status = ConsumeStatus(dep.consumed + amt, dep.amount)]
             /\ createNaclTransaction(dep.agent_id, Null, amt, "spec_review_payment")
             /\ resp' = Response("consume", Null, TRUE, "")
             /\ UNCHANGED <<balance, listings, orders, offers, reqs,
                            chain, records, now, extVars>>

FreezeError(a, l) ==
  IF ListingRow[l].agent_id # a THEN "only the listing owner"
  ELSE IF listings[l].status # "clarifying" THEN "not clarifying"
  ELSE IF ActiveDeposits(l) = {} THEN "no active deposit"
  ELSE ""

\* freezeSpec: `deposit.amount - deposit.consumed`
FreezeCreditAmount(dep) == dep.amount - dep.consumed

\* freezeSpec up to the read of the active deposit
FreezeBegin(s, a, l) ==
  LET err == FreezeError(a, l) IN
  /\ FreeSlot(s)
  /\ IF err # ""
       THEN /\ resp' = Response("freeze", Null, FALSE, err)
            /\ UNCHANGED reqs
       ELSE /\ \E d \in ActiveDeposits(l) :
                 reqs' = [reqs EXCEPT ![s] =
                   [op |-> "freeze", pc |-> "mark", agent |-> a, listing |-> l,
                    amount |-> FreezeCreditAmount(deposits[d]), snap |-> 0,
                    dep |-> d]]
            /\ UNCHANGED resp
  /\ UNCHANGED <<balance, journal, listings, orders, offers, deposits,
                 chain, records, now, extVars>>

\* db.updateSpecDeposit(deposit.id, { status: 'frozen' })
FreezeMark(s) ==
  LET r == reqs[s] IN
  /\ r.op = "freeze" /\ r.pc = "mark"
  /\ deposits' = [deposits EXCEPT ![r.dep].status = "frozen"]
  /\ reqs' = [reqs EXCEPT ![s].pc = "listing"]
  /\ UNCHANGED <<balance, journal, listings, orders, offers, resp,
                 chain, records, now, extVars>>

\* db.updateMarketListing(listingId, { status: 'frozen' }), then `creditAmount > 0`
FreezeListing(s) ==
  LET r == reqs[s] IN
  /\ r.op = "freeze" /\ r.pc = "listing"
  /\ listings' = [listings EXCEPT ![r.listing].status = "frozen"]
  /\ IF r.amount > 0
       THEN /\ reqs' = [reqs EXCEPT ![s].pc = "read"]
            /\ UNCHANGED resp
       ELSE /\ reqs' = [reqs EXCEPT ![s] = IdleReq]
            /\ resp' = Response("freeze", Null, TRUE, "")
  /\ UNCHANGED <<balance, journal, orders, offers, deposits, chain, records, now, extVars>>

\* db.getAgentById(agentId)
FreezeRead(s) ==
  LET r == reqs[s] IN
  /\ r.op = "freeze" /\ r.pc = "read"
  /\ reqs' = [reqs EXCEPT ![s].pc = "credit", ![s].snap = balance[r.agent]]
  /\ UNCHANGED <<balance, journal, listings, orders, offers, deposits, resp,
                 chain, records, now, extVars>>

\* freezeSpec: the balance written by db.updateAgent
FreezeCreditValue(snap, credit) == snap + credit

\* db.updateAgent(agentId, { nacl_balance: agent.nacl_balance + creditAmount })
FreezeCredit(s) ==
  LET r == reqs[s] IN
  /\ r.op = "freeze" /\ r.pc = "credit"
  /\ balance' = [balance EXCEPT ![r.agent] = FreezeCreditValue(r.snap, r.amount)]
  /\ reqs' = [reqs EXCEPT ![s].pc = "journal"]
  /\ UNCHANGED <<journal, listings, orders, offers, deposits, resp,
                 chain, records, now, extVars>>

\* db.createNaclTransaction(null, agentId, creditAmount, 'spec_freeze_credit')
FreezeJournal(s) ==
  LET r == reqs[s] IN
  /\ r.op = "freeze" /\ r.pc = "journal"
    /\ createNaclTransaction(Null, r.agent, r.amount, "spec_freeze_credit")
  /\ reqs' = [reqs EXCEPT ![s] = IdleReq]
  /\ resp' = Response("freeze", Null, TRUE, "")
  /\ UNCHANGED <<balance, listings, orders, offers, deposits, chain, records, now, extVars>>

\* ------------------------------------------------- SaltyEscrow contract
\* computeBountyHash / SaltyEscrow.computeHash: keccak256 of the listing id
computeBountyHash(id) == <<"keccak256", id>>

BountyHashes == {computeBountyHash(l) : l \in UsdcListings}

\* an entry of `bounties` that was never written: all fields zero
EmptyBounty == [poster |-> Null, worker |-> Null, status |-> "Open",
                deadline |-> 0, submittedAt |-> 0]

\* bounties[hash]
BountyAt(h) == IF h \in BountyHashes THEN chain[h] ELSE EmptyBounty

\* the require statements of createBounty
createBountyReverts(b, sender, amount, deadline) ==
  \/ ~(amount > 0)
  \/ ~(deadline > now)
  \/ b.poster # Null

BountyAfterCreate(sender, deadline) ==
  [poster |-> sender, worker |-> Null, status |-> "Open",
   deadline |-> deadline, submittedAt |-> 0]

\* the require statements of claimBounty
claimBountyReverts(b, sender) ==
  \/ b.poster = Null
  \/ b.status # "Open"
  \/ ~(b.deadline > now)
  \/ sender = b.poster

BountyAfterClaim(b, sender) == [b EXCEPT !.worker = sender, !.status = "Claimed"]

submitBountyReverts(b, sender) == b.status # "Claimed" \/ sender # b.worker

BountyAfterSubmit(b) == [b EXCEPT !.status = "Submitted", !.submittedAt = now]

approveBountyReverts(b, sender) == b.status # "Submitted" \/ sender # b.poster

BountyAfterApprove(b) == [b EXCEPT !.status = "Approved"]

disputeBountyReverts(b, sender) ==
  b.status # "Submitted" \/ ~(sender = b.poster \/ sender = b.worker)

BountyAfterDispute(b) == [b EXCEPT !.status = "Disputed"]

\* the require statements of autoRelease; any sender may call it
autoReleaseReverts(b) ==
  \/ b.status # "Submitted"
  \/ ~(now >= b.submittedAt + AUTO_RELEASE_PERIOD)

BountyAfterAutoRelease(b) == [b EXCEPT !.status = "AutoReleased"]

\* ------------------------------------------------- SaltyEscrow and its USDC
\* the accounts that send transactions; the owner deployed the contract
ContractOwner == "owner"
Senders == {"P", "W", ContractOwner}

\* the amounts and deadlines of createBounty, the fees of updatePlatformFee
AmountInputs == {0, 150, 2000}
DeadlineInputs == {3}
FeeInputs == {MaxPlatformFeeBps, MaxPlatformFeeBps + 1}

\* bounties[hash] with the amounts it holds
EmptyVaultBounty == EmptyBounty @@ [amount |-> 0, workerStake |-> 0]

\* the contract as deployed, with no USDC
NoVault ==
  [bounties |-> [h \in BountyHashes |-> EmptyVaultBounty],
   usdc |-> 0, accumulatedFees |-> 0, platformFeeBps |-> InitialPlatformFeeBps]

vaultFrame == <<saltVars, chain, records, now, cron, planVars, compVars, svcVars,
                analysis, extraction>>

\* `(b.amount * bps) / 10000`, rounded down
BpsOf(amount, bps) == (amount * bps) \div BpsDenominator

\* createBounty: the amount is pulled from the sender, the bounty is stored
createBountyCall(sender, h, amount, deadline) ==
  /\ ~createBountyReverts(vault.bounties[h], sender, amount, deadline)
  /\ vault' = [vault EXCEPT
       !.usdc = @ + amount,
       !.bounties[h] = BountyAfterCreate(sender, deadline)
                         @@ [amount |-> amount, workerStake |-> 0]]
  /\ resp' = NoResponse
  /\ UNCHANGED vaultFrame

\* claimBounty: the stake is pulled from the worker
claimBountyCall(sender, h) ==
  LET b == vault.bounties[h]
      stakeAmount == BpsOf(b.amount, workerStakeBps)
  IN
  /\ ~claimBountyReverts(b, sender)
  /\ vault' = [vault EXCEPT
       !.usdc = @ + stakeAmount,
       !.bounties[h] = [BountyAfterClaim(b, sender) EXCEPT !.workerStake = stakeAmount]]
  /\ resp' = NoResponse
  /\ UNCHANGED vaultFrame

submitBountyCall(sender, h) ==
  LET b == vault.bounties[h] IN
  /\ ~submitBountyReverts(b, sender)
  /\ vault' = [vault EXCEPT !.bounties[h] = BountyAfterSubmit(b)]
  /\ resp' = NoResponse
  /\ UNCHANGED vaultFrame

\* variant: the fee is kept but not added to accumulatedFees
VaultAfterPay_FeeDropped(v, b) ==
  [v EXCEPT !.usdc = @ - (b.amount - BpsOf(b.amount, v.platformFeeBps) + b.workerStake)]

\* _payWorker: the fee is accumulated, the rest and the stake go to the
\* worker
VaultAfterPay(v, b) ==
  LET fee == BpsOf(b.amount, v.platformFeeBps) IN
  [v EXCEPT !.accumulatedFees = @ + fee,
            !.usdc = @ - (b.amount - fee + b.workerStake)]

approveBountyCall(sender, h) ==
  LET b == vault.bounties[h] IN
  /\ ~approveBountyReverts(b, sender)
  /\ vault' = [VaultAfterPay(vault, b) EXCEPT !.bounties[h] = BountyAfterApprove(b)]
  /\ resp' = NoResponse
  /\ UNCHANGED vaultFrame

disputeBountyCall(sender, h) ==
  LET b == vault.bounties[h] IN
  /\ ~disputeBountyReverts(b, sender)
  /\ vault' = [vault EXCEPT !.bounties[h] = BountyAfterDispute(b)]
  /\ resp' = NoResponse
  /\ UNCHANGED vaultFrame

\* resolveDispute, onlyOwner: the worker is paid, or the poster is refunded
\* and the stake goes back to the worker
resolveDispute(sender, h, favorWorker) ==
  LET b == vault.bounties[h] IN
  /\ sender = ContractOwner
  /\ b.status = "Disputed"
  /\ vault' =
       IF favorWorker
         THEN [VaultAfterPay(vault, b) EXCEPT !.bounties[h].status = "Approved"]
         ELSE [vault EXCEPT !.usdc = @ - b.amount - b.workerStake,
                            !.bounties[h].status = "Cancelled"]
  /\ resp' = NoResponse
  /\ UNCHANGED vaultFrame

\* cancelBounty: 1 % is kept as a fee, the rest goes back to the poster
cancelBounty(sender, h) ==
  LET b == vault.bounties[h]
      cancellationFee == BpsOf(b.amount, CancellationFeeBps)
  IN
  /\ b.status = "Open"
  /\ sender = b.poster
  /\ vault' = [vault EXCEPT !.accumulatedFees = @ + cancellationFee,
                            !.usdc = @ - (b.amount - cancellationFee),
                            !.bounties[h].status = "Cancelled"]
  /\ resp' = NoResponse
  /\ UNCHANGED vaultFrame

autoReleaseCall(h) ==
  LET b == vault.bounties[h] IN
  /\ ~autoReleaseReverts(b)
  /\ vault' = [VaultAfterPay(vault, b) EXCEPT !.bounties[h] = BountyAfterAutoRelease(b)]
  /\ resp' = NoResponse
  /\ UNCHANGED vaultFrame

updatePlatformFee(sender, newFeeBps) ==
  /\ sender = ContractOwner
  /\ newFeeBps <= MaxPlatformFeeBps
  /\ vault' = [vault EXCEPT !.platformFeeBps = newFeeBps]
  /\ resp' = NoResponse
  /\ UNCHANGED vaultFrame

withdrawFees(sender) ==
  /\ sender = ContractOwner
  /\ vault.accumulatedFees > 0
  /\ vault' = [vault EXCEPT !.accumulatedFees = 0, !.usdc = @ - vault.accumulatedFees]
  /\ resp' = NoResponse
  /\ UNCHANGED vaultFrame

\* ------------------------------------------------- EscrowClient
\* what becomes of a write whose require statements pass: the transaction is
\* mined and its receipt comes back; nothing is mined (the RPC fails, the
\* allowance or the token transfer fails); the transaction is mined and
\* `tx.wait()` throws
Outcomes == {"mined", "rpc_error", "lost_receipt"}

\* the promise of an EscrowClient write resolves
CallSucceeded(reverts, outcome) == ~reverts /\ outcome = "mined"

\* the contract storage after an EscrowClient write
ChainAfterCall(h, reverts, outcome, after) ==
  IF reverts \/ outcome = "rpc_error" \/ h \notin BountyHashes
    THEN chain
    ELSE [chain EXCEPT ![h] = after]

\* ------------------------------------------------- usdc_transactions
\* db.createUsdcTransaction: INSERT, bounty_hash is indexed but not unique
createUsdcTransaction(rows, row) == Append(rows, row)

\* `receipt.hash`, the hash of the mined transaction that called fn
ReceiptHash(fn) == fn

\* db.updateUsdcTransaction(bountyHash, updates): the columns named in
\* updates are set on the rows of that hash
updateUsdcTransaction(rows, h, updates) ==
  [i \in DOMAIN rows |->
     IF rows[i].bounty_hash = h
       THEN [f \in DOMAIN rows[i] |->
               IF f \in DOMAIN updates THEN updates[f] ELSE rows[i][f]]
       ELSE rows[i]]

\* db.getSubmittedUsdcTransactions(): the bounty hashes of the rows whose
\* status is submitted, in table order
RECURSIVE getSubmittedUsdcTransactions(_)
getSubmittedUsdcTransactions(rows) ==
  IF rows = <<>> THEN <<>>
  ELSE IF Head(rows).status = "submitted"
         THEN <<Head(rows).bounty_hash>> \o getSubmittedUsdcTransactions(Tail(rows))
         ELSE getSubmittedUsdcTransactions(Tail(rows))

\* db.getUsdcTransaction(bountyHash) finds a row
HasUsdcTransaction(rows, h) == \E i \in DOMAIN rows : rows[i].bounty_hash = h

\* a new row; completed_at is null (0)
UsdcRow(l, poster, worker, status, txHash) ==
  [listing_id |-> l, bounty_hash |-> computeBountyHash(l),
   poster_id |-> poster, worker_id |-> worker, status |-> status,
   tx_hash |-> txHash, completed_at |-> 0]

\* ------------------------------------------------- escrow routes
\* variant: the statement after the awaited chain call runs even when the
\* call threw
EscrowWritesRecord_Always(reverts, outcome) == TRUE

\* the statements after `await escrowClient...` inside the try block run
\* only when the call did not throw
EscrowWritesRecord(reverts, outcome) == CallSucceeded(reverts, outcome)

EscrowOps == {"create", "claim", "claim_bounty", "submit", "submit_work",
              "approve", "dispute"}

\* the response of an escrow operation: a gate error, or the result of the
\* chain call made after the gates
EscrowResponse(op, a, gate, reverts, outcome) ==
  [op |-> op, agent |-> a, amt |-> 0,
   ok |-> gate = "" /\ CallSucceeded(reverts, outcome),
   err |-> IF gate # "" THEN gate
           ELSE IF CallSucceeded(reverts, outcome) THEN ""
           ELSE "chain call failed",
   chainCall |-> gate = ""]

\* `body.deadline || Math.floor(Date.now() / 1000) + 7 * 86400`
DeadlineOf(deadlineArg) ==
  IF deadlineArg # 0 THEN deadlineArg ELSE now + DEFAULT_DEADLINE

\* POST /market/listings/[id]/escrow (create): the checks before the try block
EscrowCreateGate(a, l) ==
  IF ListingRow[l].agent_id # a THEN "only the poster can create escrow"
  ELSE IF ~(ListingRow[l].price > 0) THEN "invalid listing price"
  ELSE IF a \notin Wallets THEN "no wallet"
  ELSE ""

EscrowCreatePOST(a, l, deadlineArg, outcome) ==
  LET gate == EscrowCreateGate(a, l)
      h == computeBountyHash(l)
      deadline == DeadlineOf(deadlineArg)
      reverts == createBountyReverts(BountyAt(h), a, ListingRow[l].price,
                                     deadline)
  IN
  /\ IF gate # ""
       THEN UNCHANGED <<chain, records>>
       ELSE /\ chain' = ChainAfterCall(h, reverts, outcome,
                                       BountyAfterCreate(a, deadline))
            /\ records' = IF EscrowWritesRecord(reverts, outcome)
                 THEN createUsdcTransaction(records,
                        UsdcRow(l, a, Null, "created", ReceiptHash("createBounty")))
                 ELSE records
  /\ resp' = EscrowResponse("create", a, gate, reverts, outcome)
  /\ UNCHANGED <<saltVars, now, extVars>>

\* POST /market/listings/[id]/escrow/claim: the checks before the try block
EscrowClaimGate(a, l) ==
  IF ListingRow[l].agent_id = a THEN "cannot claim your own bounty"
  ELSE IF a \notin Wallets THEN "no wallet"
  ELSE ""

EscrowClaimPOST(a, l, outcome) ==
  LET gate == EscrowClaimGate(a, l)
      h == computeBountyHash(l)
      reverts == claimBountyReverts(BountyAt(h), a)
  IN
  /\ IF gate # ""
       THEN UNCHANGED <<chain, records>>
       ELSE /\ chain' = ChainAfterCall(h, reverts, outcome,
                                       BountyAfterClaim(BountyAt(h), a))
            /\ records' = IF EscrowWritesRecord(reverts, outcome)
                 THEN createUsdcTransaction(records,
                        UsdcRow(l, Null, a, "claimed", ReceiptHash("claimBounty")))
                 ELSE records
  /\ resp' = EscrowResponse("claim", a, gate, reverts, outcome)
  /\ UNCHANGED <<saltVars, now, extVars>>

\* bounty-tools claim_bounty: the checks before the chain call
ClaimBountyGate(l) ==
  IF listings[l].status # "active" THEN "listing is not active"
  ELSE IF ListingRow[l].listing_mode # "service" THEN "can only claim service listings"
  ELSE ""

claim_bounty(a, l, outcome) ==
  LET gate == ClaimBountyGate(l)
      h == computeBountyHash(l)
      reverts == claimBountyReverts(BountyAt(h), a)
  IN
  /\ IF gate # ""
       THEN UNCHANGED <<chain, records>>
       ELSE /\ chain' = ChainAfterCall(h, reverts, outcome,
                                       BountyAfterClaim(BountyAt(h), a))
            /\ records' = IF EscrowWritesRecord(reverts, outcome)
                 THEN createUsdcTransaction(records,
                        UsdcRow(l, Null, a, "claimed", ReceiptHash("claimBounty")))
                 ELSE records
  /\ resp' = EscrowResponse("claim_bounty", a, gate, reverts, outcome)
  /\ UNCHANGED <<saltVars, now, extVars>>

\* POST /market/orders/[id]/escrow/submit: the checks before the try block
EscrowSubmitGate(a, o) ==
  IF a \notin Wallets THEN "no wallet"
  ELSE IF o.seller_id # a THEN "only the worker can submit"
  ELSE ""

EscrowSubmitPOST(a, id, outcome) ==
  LET o == orders[id]
      gate == EscrowSubmitGate(a, o)
      h == computeBountyHash(o.listing_id)
      reverts == submitBountyReverts(BountyAt(h), a)
  IN
  /\ id \in 1 .. Len(orders)
  /\ IF gate # ""
       THEN UNCHANGED <<chain, records>>
       ELSE /\ chain' = ChainAfterCall(h, reverts, outcome,
                                       BountyAfterSubmit(BountyAt(h)))
            /\ records' = IF EscrowWritesRecord(reverts, outcome)
                 THEN updateUsdcTransaction(records, h,
                        [status |-> "submitted", tx_hash |-> ReceiptHash("submitBounty")])
                 ELSE records
  /\ resp' = EscrowResponse("submit", a, gate, reverts, outcome)
  /\ UNCHANGED <<saltVars, now, extVars>>

\* bounty-tools submit_work: the checks before the chain call
SubmitWorkGate(a, o) ==
  IF o.seller_id # a THEN "not authorized"
  ELSE IF o.status # "pending" THEN "order is not in pending state"
  ELSE IF ~HasUsdcTransaction(records, computeBountyHash(o.listing_id))
       THEN "no escrow transaction found"
  ELSE ""

submit_work(a, id, outcome) ==
  LET o == orders[id]
      gate == SubmitWorkGate(a, o)
      h == computeBountyHash(o.listing_id)
      reverts == submitBountyReverts(BountyAt(h), a)
      written == gate = "" /\ EscrowWritesRecord(reverts, outcome)
  IN
  /\ id \in 1 .. Len(orders)
  /\ chain' = IF gate # "" THEN chain
              ELSE ChainAfterCall(h, reverts, outcome, BountyAfterSubmit(BountyAt(h)))
  /\ orders' = IF written THEN [orders EXCEPT ![id].status = "delivered"] ELSE orders
  /\ records' = IF written THEN updateUsdcTransaction(records, h,
                        [status |-> "submitted", tx_hash |-> ReceiptHash("submitBounty")])
                ELSE records
  /\ resp' = EscrowResponse("submit_work", a, gate, reverts, outcome)
  /\ UNCHANGED <<balance, journal, listings, offers, deposits, reqs, now, extVars>>

\* POST /market/orders/[id]/escrow/approve: the checks before the try block
EscrowApproveGate(a, o) ==
  IF a \notin Wallets THEN "no wallet"
  ELSE IF o.buyer_id # a THEN "only the poster can approve"
  ELSE ""

EscrowApprovePOST(a, id, outcome) ==
  LET o == orders[id]
      gate == EscrowApproveGate(a, o)
      h == computeBountyHash(o.listing_id)
      reverts == approveBountyReverts(BountyAt(h), a)
  IN
  /\ id \in 1 .. Len(orders)
  /\ IF gate # ""
       THEN UNCHANGED <<chain, records>>
       ELSE /\ chain' = ChainAfterCall(h, reverts, outcome,
                                       BountyAfterApprove(BountyAt(h)))
            /\ records' = IF EscrowWritesRecord(reverts, outcome)
                 THEN updateUsdcTransaction(records, h,
                        [status |-> "approved", tx_hash |-> ReceiptHash("approveBounty"),
                         completed_at |-> now])
                 ELSE records
  /\ resp' = EscrowResponse("approve", a, gate, reverts, outcome)
  /\ UNCHANGED <<saltVars, now, extVars>>

\* POST /market/orders/[id]/escrow/dispute: the checks before the try block
EscrowDisputeGate(a, o) ==
  IF a \notin Wallets THEN "no wallet"
  ELSE IF o.buyer_id # a /\ o.seller_id # a THEN "only poster or worker can dispute"
  ELSE ""

EscrowDisputePOST(a, id, outcome) ==
  LET o == orders[id]
      gate == EscrowDisputeGate(a, o)
      h == computeBountyHash(o.listing_id)
      reverts == disputeBountyReverts(BountyAt(h), a)
  IN
  /\ id \in 1 .. Len(orders)
  /\ IF gate # ""
       THEN UNCHANGED <<chain, records>>
       ELSE /\ chain' = ChainAfterCall(h, reverts, outcome,
                                       BountyAfterDispute(BountyAt(h)))
            /\ records' = IF EscrowWritesRecord(reverts, outcome)
                 THEN updateUsdcTransaction(records, h,
                        [status |-> "disputed", tx_hash |-> ReceiptHash("disputeBounty")])
                 ELSE records
  /\ resp' = EscrowResponse("dispute", a, gate, reverts, outcome)
  /\ UNCHANGED <<saltVars, now, extVars>>

\* SaltyEscrow.submitBounty sent by a wallet directly, not through the API
submitBounty(sender, h) ==
  /\ ~submitBountyReverts(chain[h], sender)
  /\ chain' = [chain EXCEPT ![h] = BountyAfterSubmit(chain[h])]
  /\ resp' = NoResponse
  /\ UNCHANGED <<saltVars, records, now, extVars>>

\* SaltyEscrow.createBounty sent by a wallet directly, not through the API
createBounty(sender, l, deadline) ==
  LET h == computeBountyHash(l) IN
  /\ ~createBountyReverts(chain[h], sender, ListingRow[l].price, deadline)
  /\ chain' = [chain EXCEPT ![h] = BountyAfterCreate(sender, deadline)]
  /\ resp' = NoResponse
  /\ UNCHANGED <<saltVars, records, now, extVars>>

\* ------------------------------------------------- the reconciler
\* GET /api/cron/escrow-release.  One run at a time; the run is suspended at
\* its awaits: pc is "read" before `escrowClient.getBounty` of the first
\* record left in queue and "call" before `escrowClient.autoRelease` of it.
\* released and errors are the fields of the response; again says that this
\* run started at the moment the run before it returned with no error, at
\* the time that run had read.
IdleCron == [pc |-> "idle", queue |-> <<>>, now |-> 0, released |-> 0,
             errors |-> <<>>, again |-> FALSE]

\* the run that begins with the rows and the clock read now
CronRun(again) ==
  [pc |-> "read", queue |-> getSubmittedUsdcTransactions(records),
   now |-> now, released |-> 0, errors |-> <<>>, again |-> again]

\* `bounty.status !== 2` does not hold
BountyIsSubmitted(b) == b.status = "Submitted"

\* variant: a release is due one period unit late
ReleaseDue_Late(runNow, b) == ~(runNow <= b.submittedAt + autoReleaseSeconds)

\* `now < bounty.submittedAt + autoReleaseSeconds` does not hold
ReleaseDue(runNow, b) == ~(runNow < b.submittedAt + autoReleaseSeconds)

\* none of the three `continue` statements is taken
CronReleases(runNow, b) ==
  /\ BountyIsSubmitted(b)
  /\ b.submittedAt # 0
  /\ ReleaseDue(runNow, b)

\* variant: the catch block swallows the failure
CronCatch_Silent(errors, h) == errors

\* the catch block of the loop body: `errors.push(...)`
CronCatch(errors, h) == Append(errors, h)

\* variant: a failure ends the loop
CronRest_Abort(queue, failed) == IF failed THEN <<>> ELSE Tail(queue)

\* the for loop goes on with the next record, after a failure too
CronRest(queue, failed) == Tail(queue)

\* what the run sets on the rows of a released bounty
AutoReleasedUpdate ==
  [status |-> "auto_released", tx_hash |-> ReceiptHash("autoRelease"),
   completed_at |-> now]

\* the response of the reconciler, `{ success, released, errors }`
CronResponse(ok, err, released, errors) ==
  [op |-> "cron", agent |-> Null, amt |-> released, ok |-> ok, err |-> err,
   chainCall |-> FALSE, errors |-> errors]

\* the request arrives: the bearer check, then the submitted rows and the
\* clock are read
CronGET(authorized, dbOk) ==
  /\ cron.pc = "idle"
  /\ IF ~authorized
       THEN /\ resp' = CronResponse(FALSE, "Unauthorized", 0, <<>>)
            /\ UNCHANGED cron
       ELSE IF ~dbOk
         THEN /\ resp' = CronResponse(FALSE, "Internal error", 0, <<>>)
              /\ UNCHANGED cron
         ELSE /\ cron' = CronRun(FALSE)
              /\ UNCHANGED resp
  /\ UNCHANGED <<saltVars, chain, records, now, planVars, libVars>>

\* `await escrowClient.getBounty(tx.bounty_hash)` and the three checks
CronRead(readOk) ==
  LET h == Head(cron.queue)
      b == BountyAt(h)
  IN
  /\ cron.pc = "read" /\ cron.queue # <<>>
  /\ cron' = IF ~readOk
               THEN [cron EXCEPT !.errors = CronCatch(cron.errors, h),
                                 !.queue = CronRest(cron.queue, TRUE)]
             ELSE IF CronReleases(cron.now, b)
               THEN [cron EXCEPT !.pc = "call"]
             ELSE [cron EXCEPT !.queue = CronRest(cron.queue, FALSE)]
  /\ UNCHANGED <<saltVars, resp, chain, records, now, planVars, libVars>>

\* `await escrowClient.autoRelease(tx.bounty_hash)`, then the update of the
\* rows and `released++`; updateOk says that db.updateUsdcTransaction did
\* not throw
CronCall(outcome, updateOk) ==
  LET h == Head(cron.queue)
      b == BountyAt(h)
      reverts == autoReleaseReverts(b)
      written == EscrowWritesRecord(reverts, outcome) /\ updateOk
  IN
  /\ cron.pc = "call"
  /\ chain' = ChainAfterCall(h, reverts, outcome, BountyAfterAutoRelease(b))
  /\ records' = IF written
                  THEN updateUsdcTransaction(records, h, AutoReleasedUpdate)
                  ELSE records
  /\ cron' = [cron EXCEPT
       !.pc = "read",
       !.released = IF written THEN @ + 1 ELSE @,
       !.errors = IF written THEN @ ELSE CronCatch(@, h),
       !.queue = CronRest(@, ~written)]
  /\ UNCHANGED <<saltVars, resp, now, planVars, libVars>>

\* the loop is over: `{ success: true, released, errors }`
CronReturn ==
  /\ cron.pc = "read" /\ cron.queue = <<>>
  /\ cron' = IdleCron
  /\ resp' = CronResponse(TRUE, "", cron.released, cron.errors)
  /\ UNCHANGED <<saltVars, chain, records, now, planVars, libVars>>

\* the run returns and the next authorized request arrives before anything
\* else happens
CronReturnGET ==
  /\ cron.pc = "read" /\ cron.queue = <<>>
  /\ cron' = CronRun(cron.errors = <<>> /\ cron.now = now)
  /\ resp' = CronResponse(TRUE, "", cron.released, cron.errors)
  /\ UNCHANGED <<saltVars, chain, records, now, planVars, libVars>>

\* block.timestamp and Date.now() advance
Tick ==
  /\ now' = now + 1
  /\ resp' = NoResponse
  /\ UNCHANGED <<saltVars, chain, records, extVars>>

\* ------------------------------------------------- milestone plans
\* the plans a request may carry: budget_percentage of each item, in percent
PlanInputs == {<<50, 50>>, <<100>>, <<50>>, <<0, 100>>, <<>>}
PlanActors == {"P", "W"}
PlanSlots == 1 .. PlanMaxReqs

RECURSIVE SumSeq(_)
SumSeq(q) == IF q = <<>> THEN 0 ELSE Head(q) + SumSeq(Tail(q))

Abs(x) == IF x < 0 THEN 0 - x ELSE x

\* `Math.abs(totalBudget - 100) > 0.01` does not hold
BudgetSumOk(total) == ~(Abs(total - 100) * 100 > 1)

\* createMilestones throws
createMilestonesError(plan) ==
  IF ~BudgetSumOk(SumSeq(plan)) THEN "budget percentages must sum to 100%"
  ELSE IF \E i \in DOMAIN plan : plan[i] <= 0 \/ plan[i] > 100
    THEN "budget percentage must be between 0 and 100"
  ELSE ""

\* the rows createMilestones inserts: order_index is the input index
NewMilestones(l, plan) ==
  [i \in DOMAIN plan |->
     [listing_id |-> l, order_index |-> i - 1, budget_percentage |-> plan[i],
      status |-> "pending", agent_id |-> Null]]

\* POST /market/listings/[id]/milestones: the checks of the route, then
\* createMilestones
MilestonesError(a, l, plan, wellFormed) ==
  IF ListingRow[l].agent_id # a THEN "only the listing poster can create milestones"
  ELSE IF plan = <<>> THEN "milestones array is required"
  ELSE IF ~wellFormed THEN "each milestone must have its fields"
  ELSE createMilestonesError(plan)

MilestonesPOST(a, l, plan, wellFormed) ==
  LET err == MilestonesError(a, l, plan, wellFormed) IN
  /\ milestones' = IF err = "" THEN milestones \o NewMilestones(l, plan)
                   ELSE milestones
  /\ resp' = Response("milestones", a, err = "", err)
  /\ UNCHANGED <<saltVars, chain, records, now, cron, libVars, submissions, mreqs>>

\* startMilestone: a milestone of the listing with a lower order_index is
\* not approved
PreviousNotApproved(rows, id) ==
  \E j \in DOMAIN rows :
    /\ rows[j].listing_id = rows[id].listing_id
    /\ rows[j].order_index < rows[id].order_index
    /\ rows[j].status # "approved"

StartError(rows, id) ==
  IF rows[id].status # "pending" THEN "milestone cannot start"
  ELSE IF PreviousNotApproved(rows, id)
    THEN "previous milestone must be completed first"
  ELSE ""

\* POST /market/listings/[id]/milestones/[mid]/start
MilestoneStartPOST(a, id) ==
  LET err == StartError(milestones, id) IN
  /\ id \in DOMAIN milestones
  /\ milestones' = IF err = ""
       THEN [milestones EXCEPT ![id].status = "in_progress", ![id].agent_id = a]
       ELSE milestones
  /\ resp' = Response("milestone_start", a, err = "", err)
  /\ UNCHANGED <<saltVars, chain, records, now, cron, libVars, submissions, mreqs>>

\* POST /market/listings/[id]/milestones/[mid]/submit: the checks of the
\* route, then submitMilestone
MilestoneSubmitError(a, id, hasArtifacts) ==
  IF milestones[id].agent_id # a THEN "you are not assigned to this milestone"
  ELSE IF ~hasArtifacts THEN "artifacts array is required"
  ELSE IF milestones[id].status # "in_progress" THEN "milestone cannot submit"
  ELSE ""

MilestoneSubmitPOST(a, id, hasArtifacts) ==
  LET err == MilestoneSubmitError(a, id, hasArtifacts) IN
  /\ id \in DOMAIN milestones
  /\ IF err = ""
       THEN /\ submissions' = Append(submissions,
                 [milestone_id |-> id, agent_id |-> a, status |-> "pending"])
            /\ milestones' = [milestones EXCEPT ![id].status = "submitted"]
       ELSE UNCHANGED <<milestones, submissions>>
  /\ resp' = Response("milestone_submit", a, err = "", err)
  /\ UNCHANGED <<saltVars, chain, records, now, cron, libVars, mreqs>>

\* db.getMilestoneSubmissions(milestoneId)[0]: the rows that may come
\* first; the store is not asked for an order, so it is any row of the
\* milestone, and 0 when it has none
FirstSubmission(rows, id) ==
  LET own == {i \in DOMAIN rows : rows[i].milestone_id = id}
  IN IF own = {} THEN {0} ELSE own

\* `submissions.length > 0` and the update of submissions[0]
ReviewSubmission(rows, first, status) ==
  IF first = 0 THEN rows
  ELSE [rows EXCEPT ![first].status = status]

\* `parseFloat(listing.price) * (milestone.budget_percentage / 100)`, for
\* prices and percentages whose product is a whole number of Salt
ReleaseAmount(price, pct) == (price * pct) \div 100

IdleMReq == [pc |-> "idle", agent |-> Null, id |-> 0, to |-> Null, amount |-> 0]

\* the checks of the approve route and of approveMilestone
MilestoneApproveError(a, l, id) ==
  IF ListingRow[l].agent_id # a THEN "only the listing poster can approve milestones"
  ELSE IF milestones[id].listing_id # l THEN "milestone does not belong to this listing"
  ELSE IF milestones[id].status # "submitted" THEN "milestone cannot approve"
  ELSE ""

\* POST /market/listings/[id]/milestones/[mid]/approve, up to the first
\* write: the milestone and the listing are read and checked
ApproveBegin(s, a, l, id) ==
  LET err == MilestoneApproveError(a, l, id) IN
  /\ mreqs[s].pc = "idle"
  /\ id \in DOMAIN milestones
  /\ IF err # ""
       THEN /\ resp' = Response("milestone_approve", a, FALSE, err)
            /\ UNCHANGED mreqs
       ELSE /\ mreqs' = [mreqs EXCEPT ![s] =
                 [pc |-> "mark", agent |-> a, id |-> id,
                  to |-> milestones[id].agent_id,
                  amount |-> ReleaseAmount(ListingRow[l].price,
                                           milestones[id].budget_percentage)]]
            /\ UNCHANGED resp
  /\ UNCHANGED <<saltVars, chain, records, now, cron, libVars, milestones, submissions>>

\* submitMilestone, await by await: the milestone is read and checked
SubmitBegin(s, a, id, hasArtifacts) ==
  LET err == MilestoneSubmitError(a, id, hasArtifacts) IN
  /\ mreqs[s].pc = "idle"
  /\ id \in DOMAIN milestones
  /\ IF err # ""
       THEN /\ resp' = Response("milestone_submit", a, FALSE, err)
            /\ UNCHANGED mreqs
       ELSE /\ mreqs' = [mreqs EXCEPT ![s] =
                 [IdleMReq EXCEPT !.pc = "create", !.agent = a, !.id = id]]
            /\ UNCHANGED resp
  /\ UNCHANGED <<saltVars, chain, records, now, cron, libVars, milestones, submissions>>

\* `db.createMilestoneSubmission({ ..., status: "pending" })`
SubmitCreate(s) ==
  /\ mreqs[s].pc = "create"
  /\ submissions' = Append(submissions,
       [milestone_id |-> mreqs[s].id, agent_id |-> mreqs[s].agent,
        status |-> "pending"])
  /\ mreqs' = [mreqs EXCEPT ![s].pc = "submitted"]
  /\ UNCHANGED <<saltVars, resp, chain, records, now, cron, libVars, milestones>>

\* `db.updateMilestone(milestoneId, { status: "submitted" })`
SubmitMark(s) ==
  /\ mreqs[s].pc = "submitted"
  /\ milestones' = [milestones EXCEPT ![mreqs[s].id].status = "submitted"]
  /\ resp' = Response("milestone_submit", mreqs[s].agent, TRUE, "")
  /\ mreqs' = [mreqs EXCEPT ![s] = IdleMReq]
  /\ UNCHANGED <<saltVars, chain, records, now, cron, libVars, submissions>>

\* `db.updateMilestone(milestoneId, { status: "approved" })`
ApproveMark(s) ==
  /\ mreqs[s].pc = "mark"
  /\ milestones' = [milestones EXCEPT ![mreqs[s].id].status = "approved"]
  /\ mreqs' = [mreqs EXCEPT ![s].pc = "review"]
  /\ UNCHANGED <<saltVars, resp, chain, records, now, cron, libVars, submissions>>

\* the submission of the milestone is marked approved
ApproveReview(s) ==
  /\ mreqs[s].pc = "review"
  /\ \E first \in FirstSubmission(submissions, mreqs[s].id) :
       submissions' = ReviewSubmission(submissions, first, "approved")
  /\ mreqs' = [mreqs EXCEPT ![s].pc = "pay"]
  /\ UNCHANGED <<saltVars, resp, chain, records, now, cron, libVars, milestones>>

\* `milestone.agent_id && listing.currency === "salt"`
ApprovePays(to, l) == to # Null /\ ListingRow[l].currency = "salt"

\* the transfer to the worker and the response; a transfer that throws
\* leaves the milestone approved
ApprovePay(s) ==
  LET r == mreqs[s]
      l == milestones[r.id].listing_id
  IN
  /\ r.pc = "pay"
  /\ IF ~ApprovePays(r.to, l)
       THEN /\ UNCHANGED <<balance, journal>>
            /\ resp' = [Response("milestone_approve", r.agent, TRUE, "")
                          EXCEPT !.amt = r.amount]
       ELSE IF TransferAllowed(balance, Null, r.to, r.amount)
         THEN /\ transferNacl(Null, r.to, r.amount, "milestone_payment")
              /\ resp' = [Response("milestone_approve", r.agent, TRUE, "")
                            EXCEPT !.amt = r.amount]
         ELSE /\ UNCHANGED <<balance, journal>>
              /\ resp' = Response("milestone_approve", r.agent, FALSE,
                                   "transfer failed")
  /\ mreqs' = [mreqs EXCEPT ![s] = IdleMReq]
  /\ UNCHANGED <<listings, orders, offers, deposits, reqs, chain, records,
                 now, cron, libVars, milestones, submissions>>

\* the checks of the reject route and of rejectMilestone
MilestoneRejectError(a, l, id, hasFeedback) ==
  IF ListingRow[l].agent_id # a THEN "only the listing poster can reject milestones"
  ELSE IF milestones[id].listing_id # l THEN "milestone does not belong to this listing"
  ELSE IF ~hasFeedback THEN "feedback is required"
  ELSE IF milestones[id].status # "submitted" THEN "milestone cannot reject"
  ELSE ""

\* POST /market/listings/[id]/milestones/[mid]/reject
MilestoneRejectPOST(a, l, id, hasFeedback) ==
  LET err == MilestoneRejectError(a, l, id, hasFeedback) IN
  /\ id \in DOMAIN milestones
  /\ IF err = ""
       THEN /\ milestones' = [milestones EXCEPT ![id].status = "in_progress"]
            /\ \E first \in FirstSubmission(submissions, id) :
                 submissions' = ReviewSubmission(submissions, first, "rejected")
       ELSE UNCHANGED <<milestones, submissions>>
  /\ resp' = Response("milestone_reject", a, err = "", err)
  /\ UNCHANGED <<saltVars, chain, records, now, cron, libVars, mreqs>>

\* ------------------------------------------------- the specifications
\* ------------------------------------------------- change impact analysis
\* graph.nodes, in the order of the document
GraphNodes == <<"a", "b", "c", "d">>
NodeIds == {GraphNodes[i] : i \in DOMAIN GraphNodes}
NodeIndex(id) == CHOOSE i \in DOMAIN GraphNodes : GraphNodes[i] = id

\* the `depends` of the nodes of a document: a node depends on nodes written
\* before it, so that the graph is acyclic
DependsInputs ==
  {dep \in [NodeIds -> SUBSET NodeIds] :
     \A n \in NodeIds : \A k \in dep[n] : NodeIndex(k) < NodeIndex(n)}

\* the `cost` of the nodes of a document, 0 for a node without a cost
CostInputs ==
  {[a |-> 100, b |-> 50, c |-> 20, d |-> 50],
   [a |-> 1, b |-> 14, c |-> 0, d |-> 5],
   [a |-> 5, b |-> 5, c |-> 10, d |-> 0]}

\* changedNodeIds: the lists of at most ImpactMaxSeeds node ids
SeedInputs == UNION {[1 .. n -> NodeIds] : n \in 0 .. ImpactMaxSeeds}

RECURSIVE Pow2(_)
Pow2(n) == IF n = 0 THEN 1 ELSE 2 * Pow2(n - 1)

\* a JavaScript number (IEEE 754 double) of value (q * 2^57 + d) / (5 * 2^57):
\* q fifths, and d its distance from q / 5 in units of 2^-57 / 5
Double(q, d) == [q |-> q, d |-> d]

\* 2^e <= (q * 2^57 + d) / (5 * 2^57), for a d far smaller than 2^57
AtLeastPow2(q, d, e) ==
  CASE e = 0 - 3 -> q >= 1
    [] e = 0 - 2 -> q >= 2
    [] e = 0 - 1 -> q >= 3
    [] OTHER -> q > 5 * Pow2(e) \/ (q = 5 * Pow2(e) /\ d >= 0)

\* the binary exponent of a positive value below 256
ExponentOf(q, d) ==
  CHOOSE e \in (0 - 3) .. 7 :
    AtLeastPow2(q, d, e) /\ (e = 7 \/ ~AtLeastPow2(q, d, e + 1))

\* 2^k modulo 5
PowMod5(k) ==
  CASE k % 4 = 0 -> 1
    [] k % 4 = 1 -> 2
    [] k % 4 = 2 -> 4
    [] OTHER -> 3

\* the double nearest to the exact value (q * 2^57 + d) / (5 * 2^57), ties
\* to even: one unit in the last place is 2^(e-52), that is 2^(e+5) units
\* of d, and q * 2^57 modulo 5 * 2^(e+5) is 2^(e+5) * (q * 2^(52-e) mod 5)
RoundToDouble(q, d) ==
  IF q = 0 THEN Double(0, d)
  ELSE
    LET e == ExponentOf(q, d)
        ulp == Pow2(e + 5)
        rem == (ulp * ((q * PowMod5(52 - e)) % 5) + d) % (5 * ulp)
        rem2 == (2 * ulp * ((q * PowMod5(51 - e)) % 5) + d) % (10 * ulp)
        up == 2 * rem > 5 * ulp \/ (2 * rem = 5 * ulp /\ rem2 # rem)
    IN Double(q, IF up THEN d - rem + 5 * ulp ELSE d - rem)

\* `node.cost * 0.2`: the double 0.2 is (2^57 + 8) / (5 * 2^57)
TimesRework(cost) == RoundToDouble(cost, 8 * cost)

\* `estimatedCostIncrease += ...`
DoubleAdd(x, y) ==
  IF x.q = 0 THEN y
  ELSE IF y.q = 0 THEN x
  ELSE RoundToDouble(x.q + y.q, x.d + y.d)

\* Math.ceil
DoubleCeil(x) ==
  IF x.q % 5 = 0 THEN (x.q \div 5) + (IF x.d > 0 THEN 1 ELSE 0)
  ELSE (x.q \div 5) + 1

\* dependents.get(id): the nodes that list id in `depends`, in the order
\* of the document
RECURSIVE DependentsFrom(_, _, _)
DependentsFrom(dep, id, i) ==
  IF i > Len(GraphNodes) THEN <<>>
  ELSE (IF id \in dep[GraphNodes[i]] THEN <<GraphNodes[i]>> ELSE <<>>)
         \o DependentsFrom(dep, id, i + 1)

Dependents(dep, id) == DependentsFrom(dep, id, 1)

SeqToSet(q) == {q[i] : i \in DOMAIN q}

\* the `for (const depId of deps)` loop of one dequeued node
RECURSIVE VisitDependents(_, _, _)
VisitDependents(deps, depth, st) ==
  IF deps = <<>> THEN st
  ELSE
    LET depId == Head(deps) IN
    IF depId \in st.visited THEN VisitDependents(Tail(deps), depth, st)
    ELSE VisitDependents(Tail(deps), depth,
           [queue |-> Append(st.queue, [id |-> depId, depth |-> depth + 1]),
            visited |-> st.visited \cup {depId},
            direct |-> IF depth = 0 THEN Append(st.direct, depId) ELSE st.direct,
            transitive |-> IF depth = 0 THEN st.transitive
                           ELSE Append(st.transitive, depId)])

\* the `while (queue.length > 0)` loop
RECURSIVE BreadthFirst(_, _)
BreadthFirst(dep, st) ==
  IF st.queue = <<>> THEN st
  ELSE
    LET head == Head(st.queue) IN
    BreadthFirst(dep,
      VisitDependents(Dependents(dep, head.id), head.depth,
                      [st EXCEPT !.queue = Tail(st.queue)]))

\* the queue and the visited set before the loop
SearchStart(seeds) ==
  [queue |-> [i \in DOMAIN seeds |-> [id |-> seeds[i], depth |-> 0]],
   visited |-> SeqToSet(seeds),
   direct |-> <<>>,
   transitive |-> <<>>]

\* the `for (const nodeId of affectedNodes)` loop: `if (node?.cost)`
RECURSIVE CostIncrease(_, _, _)
CostIncrease(cost, ids, sum) ==
  IF ids = <<>> THEN sum
  ELSE CostIncrease(cost, Tail(ids),
         IF cost[Head(ids)] # 0 THEN DoubleAdd(sum, TimesRework(cost[Head(ids)]))
         ELSE sum)

\* the thresholds of the risk level
RiskLow == 2
RiskMedium == 5

\* variant: the two lower levels exchanged
riskLevel_Exchanged(totalAffected) ==
  IF totalAffected <= RiskLow THEN "medium"
  ELSE IF totalAffected <= RiskMedium THEN "low"
  ELSE "high"

riskLevel(totalAffected) ==
  IF totalAffected <= RiskLow THEN "low"
  ELSE IF totalAffected <= RiskMedium THEN "medium"
  ELSE "high"

calculateChangeImpact(dep, cost, changedNodeIds) ==
  LET st == BreadthFirst(dep, SearchStart(changedNodeIds))
      affectedNodes == changedNodeIds \o st.direct \o st.transitive
  IN [changed_nodes |-> changedNodeIds,
      directly_affected |-> st.direct,
      transitively_affected |-> st.transitive,
      total_affected_count |-> Len(affectedNodes),
      estimated_cost_increase |->
        DoubleCeil(CostIncrease(cost, affectedNodes, Double(0, 0))),
      risk_level |-> riskLevel(Len(affectedNodes))]

NoAnalysis == [depends |-> [n \in NodeIds |-> {}], cost |-> [n \in NodeIds |-> 0],
               seeds |-> <<>>, done |-> FALSE,
               impact |-> calculateChangeImpact([n \in NodeIds |-> {}],
                                                [n \in NodeIds |-> 0], <<>>)]

\* GET /market/listings/[id]/spec/change-order/[orderId]/impact: the
\* analysis of the stored graph for the affected nodes of the change order
ImpactGET(dep, cost, seeds) ==
  /\ analysis' = [depends |-> dep, cost |-> cost, seeds |-> seeds, done |-> TRUE,
                  impact |-> calculateChangeImpact(dep, cost, seeds)]
  /\ resp' = Response("impact", Null, TRUE, "")
  /\ UNCHANGED <<saltVars, chain, records, now, cron, planVars, compVars, svcVars,
                 extraction, vault>>

\* ------------------------------------------------- bounty subgraphs
\* the nodes a graph may name; fullGraph.nodes[id] is a node that is done, a
\* node in any other status, or undefined
BountyNodeIds == {"a", "b", "c"}
NodeStates == {"absent", "done", "open"}
EdgeTypes == {"depends_on", "relates_to"}

\* the edges a graph may carry, between different nodes
EdgeInputs ==
  {e \in [from : BountyNodeIds, to : BountyNodeIds, type : EdgeTypes] :
     e.from # e.to}

\* an array that holds the elements of a set
RECURSIVE ArrayOf(_)
ArrayOf(S) ==
  IF S = {} THEN <<>>
  ELSE LET x == CHOOSE x \in S : TRUE IN <<x>> \o ArrayOf(S \ {x})

\* the graphs of the requests: every status of every node, up to
\* ExtractMaxEdges edges
GraphInputs ==
  {[nodes |-> n, edges |-> ArrayOf(E)] :
     n \in [BountyNodeIds -> NodeStates],
     E \in {E \in SUBSET EdgeInputs : Cardinality(E) <= ExtractMaxEdges}}

\* `fullGraph.nodes[id]` is defined
HasNode(nodes, id) == id \in DOMAIN nodes /\ nodes[id] # "absent"

\* `edge.to === nodeId && edge.type === 'depends_on'`, in array order
RECURSIVE incomingEdges(_, _)
incomingEdges(edges, nodeId) ==
  IF edges = <<>> THEN <<>>
  ELSE (IF Head(edges).to = nodeId /\ Head(edges).type = "depends_on"
          THEN <<Head(edges)>> ELSE <<>>) \o incomingEdges(Tail(edges), nodeId)

\* variant: a dependency is followed whatever its status
DependencyKept_Any(nodes, id) == HasNode(nodes, id)

\* `depNode && depNode.status !== 'done'`
DependencyKept(nodes, id) == HasNode(nodes, id) /\ nodes[id] # "done"

\* addDependencies(nodeId, visited) and its loop over the incoming edges;
\* st holds includedNodes and visited
RECURSIVE addDependencies(_, _, _)
RECURSIVE AddIncoming(_, _, _)
addDependencies(graph, nodeId, st) ==
  IF nodeId \in st.visited THEN st
  ELSE AddIncoming(graph, incomingEdges(graph.edges, nodeId),
                   [st EXCEPT !.visited = @ \cup {nodeId}])

AddIncoming(graph, incoming, st) ==
  IF incoming = <<>> THEN st
  ELSE LET from == Head(incoming).from IN
       AddIncoming(graph, Tail(incoming),
         IF DependencyKept(graph.nodes, from)
           THEN addDependencies(graph, from,
                                [st EXCEPT !.included = @ \cup {from}])
           ELSE st)

\* the loop over nodeIds: a selected node that is not in the graph throws;
\* every call of addDependencies starts from an empty visited
RECURSIVE AddSelected(_, _, _)
AddSelected(graph, nodeIds, st) ==
  IF nodeIds = <<>> \/ st.threw THEN st
  ELSE IF ~HasNode(graph.nodes, Head(nodeIds)) THEN [st EXCEPT !.threw = TRUE]
  ELSE AddSelected(graph, Tail(nodeIds),
         [addDependencies(graph, Head(nodeIds), [st EXCEPT !.visited = {}])
            EXCEPT !.visited = {}])

\* `includedNodes.has(edge.from) && includedNodes.has(edge.to)`, in array
\* order
RECURSIVE EdgesBetween(_, _)
EdgesBetween(edges, included) ==
  IF edges = <<>> THEN <<>>
  ELSE (IF Head(edges).from \in included /\ Head(edges).to \in included
          THEN <<Head(edges)>> ELSE <<>>) \o EdgesBetween(Tail(edges), included)

\* extractBountySubgraph: the subgraph, or threw
extractBountySubgraph(graph, nodeIds) ==
  LET st == AddSelected(graph, nodeIds,
              [included |-> {nodeIds[i] : i \in DOMAIN nodeIds},
               visited |-> {}, threw |-> FALSE])
  IN IF st.threw
       THEN [threw |-> TRUE, nodes |-> <<>>, edges |-> <<>>]
       ELSE [threw |-> FALSE,
             nodes |-> [id \in st.included |-> graph.nodes[id]],
             edges |-> EdgesBetween(graph.edges, st.included)]

\* createBountySpec: the nodes and the edges of the subgraph
createBountySpec(subgraph) == [nodes |-> subgraph.nodes, edges |-> subgraph.edges]

\* validateBountySpec, the check of the edges: the ids reported as
\* non-existent nodes, in order
RECURSIVE EdgeErrors(_, _)
EdgeErrors(nodes, edges) ==
  IF edges = <<>> THEN <<>>
  ELSE (IF ~HasNode(nodes, Head(edges).from) THEN <<Head(edges).from>> ELSE <<>>)
       \o (IF ~HasNode(nodes, Head(edges).to) THEN <<Head(edges).to>> ELSE <<>>)
       \o EdgeErrors(nodes, Tail(edges))

NoExtraction ==
  [graph |-> [nodes |-> [id \in BountyNodeIds |-> "absent"], edges |-> <<>>],
   nodeIds |-> <<>>, pc |-> "idle", threw |-> FALSE,
   nodes |-> <<>>, edges |-> <<>>, errors |-> <<>>]

\* testBountyExtraction, its first step: the subgraph of the selected nodes
\* is extracted
ExtractRun(graph, nodeIds) ==
  LET sub == extractBountySubgraph(graph, nodeIds) IN
  /\ extraction' = [NoExtraction EXCEPT
                      !.graph = graph, !.nodeIds = nodeIds,
                      !.pc = IF sub.threw THEN "threw" ELSE "extracted",
                      !.threw = sub.threw, !.nodes = sub.nodes, !.edges = sub.edges]
  /\ resp' = Response("extract", Null, ~sub.threw,
                      IF sub.threw THEN "node not found in graph" ELSE "")
  /\ UNCHANGED <<saltVars, chain, records, now, cron, planVars, compVars, svcVars,
                 analysis, vault>>

\* its next steps: the spec is created from the subgraph and validated
ValidateRun ==
  LET spec == createBountySpec(extraction) IN
  /\ extraction.pc = "extracted"
  /\ extraction' = [extraction EXCEPT !.pc = "validated",
                                      !.errors = EdgeErrors(spec.nodes, spec.edges)]
  /\ resp' = Response("validate", Null, TRUE, "")
  /\ UNCHANGED <<saltVars, chain, records, now, cron, planVars, compVars, svcVars,
                 analysis, vault>>

\* ------------------------------------------------- competitions
\* the competition of listing K1, a bounty of its poster P
Entrants == <<"W", "B", "N">>
EntrantIds == {Entrants[i] : i \in DOMAIN Entrants}
Scores == {0, 50}
\* `score: number | null`: the score of an entry that has none
NoScore == 0 - 1
\* the prize 0 / 0 of a proportional split over scores that sum to 0; no
\* other prize is negative
NaN == 0 - 2
\* prizeDistribution.config of the request, 0 for a field left out
\* `deadline: ... : null`: the competition has no deadline
NoDeadline == 0
NoConfig == [firstPlace |-> 0, secondPlace |-> 0, thirdPlace |-> 0, minScore |-> 0]
\* the prizeDistribution of a request: its type, "" when left out, and its
\* config
PrizeInputs ==
  {[type |-> "winner-take-all", config |-> NoConfig],
   [type |-> "top-3", config |-> NoConfig],
   [type |-> "top-3", config |-> [NoConfig EXCEPT !.firstPlace = 80, !.secondPlace = 80]],
   [type |-> "proportional", config |-> NoConfig],
   [type |-> "proportional", config |-> [NoConfig EXCEPT !.minScore = 50]],
   [type |-> "other", config |-> NoConfig],
   [type |-> "", config |-> NoConfig]}
FinalSlots == 1 .. CompMaxReqs
\* a request slot of the competition library: where the request is, who
\* sent it, the prizes it computed, the entry it evaluates
IdleFReq == [pc |-> "idle", agent |-> Null, plan |-> <<>>, entry |-> 0]

\* the defaults of the top-3 split
FirstPlaceDefault == 50
SecondPlaceDefault == 30
ThirdPlaceDefault == 20

\* `x || dflt`
OrDefault(x, dflt) == IF x = 0 THEN dflt ELSE x

NoCompetition ==
  [status |-> "none", prize_distribution |-> "none",
   prize_config |-> NoConfig, winner_id |-> Null,
   max_submissions |-> 0, evaluation_method |-> "none", deadline |-> NoDeadline]

\* createCompetition: the prize_config that is stored
StoredConfig(type, config) ==
  IF type = "top-3"
    THEN [config EXCEPT !.firstPlace = OrDefault(config.firstPlace, FirstPlaceDefault),
                        !.secondPlace = OrDefault(config.secondPlace, SecondPlaceDefault),
                        !.thirdPlace = OrDefault(config.thirdPlace, ThirdPlaceDefault)]
    ELSE config

\* the checks of POST /market/listings/[id]/competition and of createCompetition
CompetitionError(a, l, type) ==
  IF ListingRow[l].agent_id # a THEN "only listing owner can create competitions"
  ELSE IF type = "" THEN "prizeDistribution is required"
  ELSE IF l \notin BountyListings THEN "only bounty listings can have competitions"
  ELSE IF competition.status # "none" THEN "competition already exists"
  ELSE ""

\* `maxSubmissions = 1` of the route and `config.maxSubmissions || 1`
StoredMaxSubmissions(maxSubmissions) == OrDefault(maxSubmissions, 1)

CompetitionPOST(a, l, type, config, maxSubmissions, evaluationMethod, deadline) ==
  LET err == CompetitionError(a, l, type) IN
  /\ competition' =
       IF err = ""
         THEN [status |-> "active", prize_distribution |-> type,
               prize_config |-> StoredConfig(type, config), winner_id |-> Null,
               max_submissions |-> StoredMaxSubmissions(maxSubmissions),
               evaluation_method |-> evaluationMethod, deadline |-> deadline]
         ELSE competition
  /\ resp' = Response("competition", a, err = "", err)
  /\ UNCHANGED <<saltVars, chain, records, now, cron, planVars, sideVars, svcVars,
                 entries, freqs>>

\* the checks of POST /market/listings/[id]/competition/submit and of submitEntry
\* `competition.deadline && new Date(competition.deadline) < new Date()`
DeadlinePassed(deadline, t) == deadline # NoDeadline /\ deadline < t

\* db.getCompetitionEntriesByAgent(competitionId, agentId)
EntriesByAgent(a) == {i \in DOMAIN entries : entries[i].agent_id = a}

\* the checks of the route and of submitEntry before the entries are read
EntryRefused(hasArtifacts) ==
  IF competition.status = "none" THEN "competition not found"
  ELSE IF ~hasArtifacts THEN "artifacts is required"
  ELSE IF competition.status # "active" THEN "not accepting submissions"
  ELSE IF DeadlinePassed(competition.deadline, now) THEN "deadline has passed"
  ELSE ""

\* `existingEntries.length >= competition.max_submissions`
EntryLimitReached(a) == Cardinality(EntriesByAgent(a)) >= competition.max_submissions

\* UNIQUE(competition_id, agent_id) of competition_entries: the insert of a
\* second row of the agent fails
EntryDuplicate(a) == EntriesByAgent(a) # {}

EntryError(a, hasArtifacts) ==
  IF EntryRefused(hasArtifacts) # "" THEN EntryRefused(hasArtifacts)
  ELSE IF EntryLimitReached(a) THEN "maximum submission(s) per agent"
  ELSE IF EntryDuplicate(a) THEN "duplicate key value"
  ELSE ""

\* an entry as db.createCompetitionEntry makes it; the entries are created
\* one after the other, so submitted_at is the place in the table
NewEntry(a) ==
  [agent_id |-> a, score |-> NoScore, rank |-> 0, status |-> "pending",
   prize_amount |-> 0, submitted_at |-> Len(entries) + 1,
   evaluation_result |-> ""]

EntryPOST(a, hasArtifacts) ==
  LET err == EntryError(a, hasArtifacts) IN
  /\ entries' = IF err = "" THEN Append(entries, NewEntry(a)) ELSE entries
  /\ resp' = Response("entry", a, err = "", err)
  /\ UNCHANGED <<saltVars, chain, records, now, cron, planVars, sideVars, svcVars,
                 competition, freqs>>

\* submitEntry as the requests of one agent and of several overlap: the
\* competition is read and checked
EntryBegin(s, a, hasArtifacts) ==
  LET err == EntryRefused(hasArtifacts) IN
  /\ freqs[s].pc = "idle"
  /\ IF err # ""
       THEN /\ resp' = Response("entry", a, FALSE, err)
            /\ UNCHANGED freqs
       ELSE /\ freqs' = [freqs EXCEPT ![s] = [IdleFReq EXCEPT !.pc = "count", !.agent = a]]
            /\ UNCHANGED resp
  /\ UNCHANGED <<saltVars, chain, records, now, cron, planVars, sideVars, svcVars,
                 competition, entries>>

\* the entries of the agent are read and counted
EntryCount(s) ==
  LET a == freqs[s].agent IN
  /\ freqs[s].pc = "count"
  /\ IF EntryLimitReached(a)
       THEN /\ resp' = Response("entry", a, FALSE, "maximum submission(s) per agent")
            /\ freqs' = [freqs EXCEPT ![s] = IdleFReq]
       ELSE /\ freqs' = [freqs EXCEPT ![s].pc = "create"]
            /\ UNCHANGED resp
  /\ UNCHANGED <<saltVars, chain, records, now, cron, planVars, sideVars, svcVars,
                 competition, entries>>

\* db.createCompetitionEntry: the row is inserted unless the agent has one
EntryCreate(s) ==
  LET a == freqs[s].agent IN
  /\ freqs[s].pc = "create"
  /\ entries' = IF EntryDuplicate(a) THEN entries ELSE Append(entries, NewEntry(a))
  /\ resp' = Response("entry", a, ~EntryDuplicate(a),
                      IF EntryDuplicate(a) THEN "duplicate key value" ELSE "")
  /\ freqs' = [freqs EXCEPT ![s] = IdleFReq]
  /\ UNCHANGED <<saltVars, chain, records, now, cron, planVars, sideVars, svcVars,
                 competition>>

\* the try block of evaluateEntry: the message of the error it throws, ""
\* when it throws none. The evaluator of the caller returns or throws; the
\* harness and the manual evaluation return; any other method throws
EvaluationThrown(method, hasEvaluator, succeeds) ==
  IF hasEvaluator THEN (IF succeeds THEN "" ELSE "evaluator threw")
  ELSE IF method \in {"harness", "manual"} THEN ""
  ELSE "unsupported evaluation method"

\* `result.score`: what the evaluator returns, what the harness draws, 0
\* of the manual evaluation
EvaluationScore(method, hasEvaluator, score) ==
  IF hasEvaluator \/ method = "harness" THEN score ELSE 0

\* a variant of the update in which the catch block rethrows without
\* marking the entry
EvaluatedEntries_Rethrown(rows, id, thrown, score) ==
  IF thrown = ""
    THEN [rows EXCEPT ![id].status = "scored", ![id].score = score,
                      ![id].evaluation_result = "success"]
    ELSE rows

\* the update of the entry that ends evaluateEntry: scored, or
\* disqualified in the catch block
EvaluatedEntries(rows, id, thrown, score) ==
  IF thrown = ""
    THEN [rows EXCEPT ![id].status = "scored", ![id].score = score,
                      ![id].evaluation_result = "success"]
    ELSE [rows EXCEPT ![id].status = "disqualified",
                      ![id].evaluation_result = thrown]

\* evaluateEntry as calls overlap each other and the other requests: the
\* entry and the competition are read, the entry is marked
EvaluateBegin(s, id) ==
  /\ freqs[s].pc = "idle"
  /\ id \in DOMAIN entries
  /\ entries' = [entries EXCEPT ![id].status = "evaluating"]
  /\ freqs' = [freqs EXCEPT ![s] = [IdleFReq EXCEPT !.pc = "evaluate", !.entry = id]]
  /\ UNCHANGED <<saltVars, chain, records, now, cron, planVars, sideVars, svcVars,
                 competition, resp>>

\* the evaluation has run: the entry is scored or disqualified
EvaluateEnd(s, hasEvaluator, succeeds, score) ==
  LET id == freqs[s].entry
      thrown == EvaluationThrown(competition.evaluation_method, hasEvaluator, succeeds)
  IN
  /\ freqs[s].pc = "evaluate"
  /\ entries' = EvaluatedEntries(entries, id, thrown,
                   EvaluationScore(competition.evaluation_method, hasEvaluator, score))
  /\ freqs' = [freqs EXCEPT ![s] = IdleFReq]
  /\ resp' = Response("evaluate", Null, thrown = "", thrown)
  /\ UNCHANGED <<saltVars, chain, records, now, cron, planVars, sideVars, svcVars,
                 competition>>

\* evaluateEntry with an evaluator that returns a score or throws, as one
\* step
evaluateEntry(id, succeeds, score) ==
  LET thrown == EvaluationThrown(competition.evaluation_method, TRUE, succeeds) IN
  /\ id \in DOMAIN entries
  /\ entries' = EvaluatedEntries(entries, id, thrown, score)
  /\ resp' = Response("evaluate", Null, thrown = "", thrown)
  /\ UNCHANGED <<saltVars, chain, records, now, cron, planVars, sideVars, svcVars,
                 competition, freqs>>

\* the orders in which db.getCompetitionEntries may return the rows: the
\* call asks for no order
EntryOrders ==
  {o \in [DOMAIN entries -> DOMAIN entries] :
     \A i \in DOMAIN entries, j \in DOMAIN entries : i # j => o[i] # o[j]}

\* `.filter(e => e.status === 'scored' && e.score !== null)`
RECURSIVE FilterScored(_)
FilterScored(ids) ==
  IF ids = <<>> THEN <<>>
  ELSE (IF entries[Head(ids)].status = "scored" /\ entries[Head(ids)].score # NoScore
          THEN <<Head(ids)>> ELSE <<>>) \o FilterScored(Tail(ids))

\* the comparator `(b.score || 0) - (a.score || 0)` is negative: x goes
\* before y
ScoreBefore(x, y) == entries[x].score > entries[y].score

\* Array.prototype.sort, which is stable: x is put behind every element
\* that it does not go before
RECURSIVE InsertSorted(_, _)
InsertSorted(sorted, x) ==
  IF sorted = <<>> THEN <<x>>
  ELSE IF ScoreBefore(x, Head(sorted)) THEN <<x>> \o sorted
  ELSE <<Head(sorted)>> \o InsertSorted(Tail(sorted), x)

RECURSIVE SortByScore(_, _)
SortByScore(ids, sorted) ==
  IF ids = <<>> THEN sorted
  ELSE SortByScore(Tail(ids), InsertSorted(sorted, Head(ids)))

\* scoredEntries, for the order in which the rows were returned
ScoredEntries(order) == SortByScore(FilterScored(order), <<>>)

\* `parseFloat(listing.price)` of a Salt listing
TotalPrize(l) == ListingRow[l].price

\* `(totalPrize * percentages[i]) / 100`, exact for the prices of the model
PrizeShare(total, pct) == (total * pct) \div 100

\* the percentages of the top-3 split
Percentages(config) ==
  <<OrDefault(config.firstPlace, FirstPlaceDefault),
    OrDefault(config.secondPlace, SecondPlaceDefault),
    OrDefault(config.thirdPlace, ThirdPlaceDefault)>>

Min(x, y) == IF x < y THEN x ELSE y

\* `.filter(e => (e.score || 0) >= minScore)`
RECURSIVE FilterQualified(_, _)
FilterQualified(ids, minScore) ==
  IF ids = <<>> THEN <<>>
  ELSE (IF entries[Head(ids)].score >= minScore THEN <<Head(ids)>> ELSE <<>>)
         \o FilterQualified(Tail(ids), minScore)

RECURSIVE TotalScore(_)
TotalScore(ids) ==
  IF ids = <<>> THEN 0 ELSE entries[Head(ids)].score + TotalScore(Tail(ids))

\* `(totalPrize * (entry.score || 0)) / totalScore`, exact for the scores
\* and the prices of the model
ProportionalPrize(total, score, totalScore) ==
  IF totalScore = 0 THEN NaN ELSE (total * score) \div totalScore

\* the entries that are updated, in order, with the prize of each
PrizePlan(type, config, total, scored) ==
  CASE type = "winner-take-all" ->
         <<[id |-> scored[1], rank |-> 1, prize |-> total]>>
    [] type = "top-3" ->
         [i \in 1 .. Min(3, Len(scored)) |->
            [id |-> scored[i], rank |-> i,
             prize |-> PrizeShare(total, Percentages(config)[i])]]
    [] type = "proportional" ->
         LET qualified == FilterQualified(scored, config.minScore) IN
         [i \in 1 .. Len(qualified) |->
            [id |-> qualified[i], rank |-> i,
             prize |-> ProportionalPrize(total, entries[qualified[i]].score,
                                         TotalScore(qualified))]]
    [] OTHER -> <<>>

\* finalizeCompetition throws before it has written anything
FinalizeError(a, l, order) ==
  IF ListingRow[l].agent_id # a THEN "only listing owner can finalize competitions"
  ELSE IF competition.status = "none" THEN "competition not found"
  ELSE IF competition.status = "finalized" THEN "competition already finalized"
  ELSE IF ScoredEntries(order) = <<>> THEN "no valid entries to finalize"
  ELSE IF competition.prize_distribution = "proportional"
          /\ FilterQualified(ScoredEntries(order), competition.prize_config.minScore) = <<>>
       THEN "no entries meet minimum score threshold"
  ELSE ""

\* POST /market/listings/[id]/competition/finalize up to the first write:
\* the competition and the entries are read, the prizes are computed
FinalizeBegin(s, a, l, order) ==
  LET err == FinalizeError(a, l, order) IN
  /\ freqs[s].pc = "idle"
  /\ \A t \in FinalSlots : t < s => freqs[t].pc # "idle"
  /\ IF err # ""
       THEN /\ resp' = Response("finalize", a, FALSE, err)
            /\ UNCHANGED freqs
       ELSE /\ freqs' = [freqs EXCEPT ![s] =
                 [IdleFReq EXCEPT
                    !.pc = "entries", !.agent = a,
                    !.plan = PrizePlan(competition.prize_distribution,
                                       competition.prize_config, TotalPrize(l),
                                       ScoredEntries(order))]]
            /\ UNCHANGED resp
  /\ UNCHANGED <<saltVars, chain, records, now, cron, planVars, sideVars, svcVars,
                 competition, entries>>

\* the db.updateCompetitionEntry calls of the plan
RECURSIVE EntriesAfterPlan(_, _)
EntriesAfterPlan(rows, plan) ==
  IF plan = <<>> THEN rows
  ELSE LET u == Head(plan) IN
       EntriesAfterPlan(
         [rows EXCEPT ![u.id].status = IF u.rank = 1 THEN "winner" ELSE "scored",
                      ![u.id].rank = u.rank,
                      ![u.id].prize_amount = u.prize],
         Tail(plan))

FinalizeEntries(s) ==
  /\ freqs[s].pc = "entries"
  /\ entries' = EntriesAfterPlan(entries, freqs[s].plan)
  /\ freqs' = [freqs EXCEPT ![s].pc = "mark"]
  /\ UNCHANGED <<saltVars, chain, records, now, cron, planVars, sideVars, svcVars,
                 competition, resp>>

\* `winners[0]?.agent_id || null`
WinnerOf(plan) == IF plan = <<>> THEN Null ELSE entries[plan[1].id].agent_id

\* db.updateCompetition(competitionId, { status: 'finalized', winnerId })
FinalizeMark(s) ==
  /\ freqs[s].pc = "mark"
  /\ competition' = [competition EXCEPT !.status = "finalized",
                                        !.winner_id = WinnerOf(freqs[s].plan)]
  /\ freqs' = [freqs EXCEPT ![s].pc = "pay"]
  /\ UNCHANGED <<saltVars, chain, records, now, cron, planVars, sideVars, svcVars,
                 entries, resp>>

\* distributePrize: `if (amount <= 0) return`, false for NaN
PrizeSkipped(amount) == amount # NaN /\ amount <= 0

\* the loop over the distribution: the prizes are paid in the order of the
\* plan, and a transfer that throws ends the loop with the earlier prizes paid
RECURSIVE PayPrizes(_, _)
PayPrizes(plan, st) ==
  IF plan = <<>> \/ st.failed THEN st
  ELSE
    LET u == Head(plan)
        to == entries[u.id].agent_id
    IN
    IF PrizeSkipped(u.prize) THEN PayPrizes(Tail(plan), st)
    ELSE IF TransferAllowed(st.balance, Null, to, u.prize)
      THEN PayPrizes(Tail(plan),
             [balance |-> BalanceAfterTransfer(st.balance, Null, to, u.prize),
              journal |-> st.journal
                 (+) SetToBag({Entry(Null, to, u.prize, "competition_prize")}),
              failed |-> FALSE])
    ELSE [st EXCEPT !.failed = TRUE]

FinalizePay(s) ==
  LET r == freqs[s]
      st == PayPrizes(r.plan, [balance |-> balance, journal |-> journal,
                               failed |-> FALSE])
  IN
  /\ r.pc = "pay"
  /\ balance' = st.balance
  /\ journal' = st.journal
  /\ freqs' = [freqs EXCEPT ![s] = IdleFReq]
  /\ resp' = Response("finalize", r.agent, ~st.failed,
                      IF st.failed THEN "transfer failed" ELSE "")
  /\ UNCHANGED <<listings, orders, offers, deposits, reqs, chain, records, now,
                 cron, planVars, sideVars, svcVars,
                 competition, entries>>

\* ------------------------------------------------- event bus
\* the channels `market:${id}` and the listeners of the SSE streams
Channels == {"market:L1", "market:L2"}
ListenerFns == {"f1", "f2"}
\* `data.type` of the events the routes emit
EventTypes == {"offer", "offer_response"}

NoEmit == [n |-> 0, channel |-> Null, data |-> Null, subscribers |-> {},
           throwers |-> {}, called |-> {}, threw |-> FALSE]

\* `this.listeners.get(channel)!.add(listener)`: a Set keeps insertion order
\* and a listener already in it stays where it is
subscribe(channel, fn) ==
  /\ listeners' = [listeners EXCEPT ![channel] =
                     IF fn \in SeqToSet(@) THEN @ ELSE Append(@, fn)]
  /\ UNCHANGED <<saltVars, resp, chain, records, now, cron, planVars,
                 sideVars, compVars, rateVars, areqs,
                 inbox, emitted>>

RECURSIVE Without(_, _)
Without(q, fn) ==
  IF q = <<>> THEN <<>>
  ELSE IF Head(q) = fn THEN Without(Tail(q), fn)
  ELSE <<Head(q)>> \o Without(Tail(q), fn)

\* the closure returned by subscribe: `delete(listener)`; a channel whose
\* set is empty is dropped from the map (here: the empty sequence)
unsubscribe(channel, fn) ==
  /\ listeners' = [listeners EXCEPT ![channel] = Without(@, fn)]
  /\ UNCHANGED <<saltVars, resp, chain, records, now, cron, planVars,
                 sideVars, compVars, rateVars, areqs,
                 inbox, emitted>>

\* variant: the exception of a listener leaves forEach
ListenerThrew_Propagates(st) == [st EXCEPT !.threw = TRUE]

\* `try { fn(data); } catch {}`: the exception is dropped
ListenerThrew(st) == st

\* `forEach((fn) => ...)`: the listeners are called in insertion order; an
\* exception that leaves the callback ends the loop
RECURSIVE Deliver(_, _, _, _)
Deliver(fns, i, throwers, st) ==
  IF i > Len(fns) \/ st.threw THEN st
  ELSE LET called == [st EXCEPT !.called = @ \cup {fns[i]}]
       IN Deliver(fns, i + 1, throwers,
                  IF fns[i] \in throwers THEN ListenerThrew(called) ELSE called)

\* `emit(channel, data)`; throwers are the listeners that throw on this event
emit(channel, data, throwers) ==
  LET st == Deliver(listeners[channel], 1, throwers,
                    [called |-> {}, threw |-> FALSE])
  IN
  /\ inbox' = [fn \in ListenerFns |->
                 IF fn \in st.called THEN Append(inbox[fn], data) ELSE inbox[fn]]
  /\ emitted' = [n |-> emitted.n + 1, channel |-> channel, data |-> data,
                 subscribers |-> SeqToSet(listeners[channel]),
                 throwers |-> throwers, called |-> st.called, threw |-> st.threw]
  /\ UNCHANGED <<saltVars, resp, chain, records, now, cron, planVars,
                 sideVars, compVars, rateVars, areqs,
                 listeners>>

\* ------------------------------------------------- rate limiter
\* the keys `offer:${agent.id}`; Date.now() counts half minutes here
RateAgents == {"W", "B"}
RateKey(a) == "offer:" \o a
RateKeys == {RateKey(a) : a \in RateAgents}

\* `windows.get(key)` of a key without entry
NoWindow == [count |-> 0, resetAt |-> 0]

\* `!entry || now > entry.resetAt`
WindowOver(entry, t) == entry = NoWindow \/ t > entry.resetAt

\* variant: the limit is reached one request later
LimitReached_Late(entry, limit) == entry.count > limit

\* `entry.count >= limit`
LimitReached(entry, limit) == entry.count >= limit

\* rateLimit(key, limit, windowMs): the answer and the map after the call
rateLimit(key, limit, windowMs) ==
  LET entry == windows[key] IN
  IF WindowOver(entry, now)
    THEN [allowed |-> TRUE, remaining |-> limit - 1, retryAfterMs |-> 0,
          windows |-> [windows EXCEPT ![key] =
                         [count |-> 1, resetAt |-> now + windowMs]]]
  ELSE IF LimitReached(entry, limit)
    THEN [allowed |-> FALSE, remaining |-> 0,
          retryAfterMs |-> entry.resetAt - now, windows |-> windows]
  ELSE [allowed |-> TRUE, remaining |-> limit - (entry.count + 1),
        retryAfterMs |-> 0,
        windows |-> [windows EXCEPT ![key].count = entry.count + 1]]

\* POST /market/listings/[id]/offers with the limiter: the limiter is asked
\* once the listing is found active and before the body is read; no SSE
\* stream is open, so the emit of the route calls nobody
OfferRateLimitedPOST(a, l, hasText, price) ==
  LET rl == rateLimit(RateKey(a), PredictionLimit, PredictionWindow)
      asked == listings[l].status = "active"
  IN
  /\ windows' = IF asked THEN rl.windows ELSE windows
  /\ calls' = IF asked
                THEN [calls EXCEPT ![RateKey(a)] =
                        Append(@, [at |-> now, allowed |-> rl.allowed])]
                ELSE calls
  /\ IF asked /\ ~rl.allowed
       THEN /\ resp' = [Response("offer", Null, FALSE, "too many offers")
                          EXCEPT !.amt = rl.retryAfterMs]
            /\ UNCHANGED offers
       ELSE OfferChecked(a, l, hasText, price)
  /\ UNCHANGED <<balance, journal, listings, orders, deposits, reqs,
                 chain, records, now, cron, planVars, sideVars, compVars, busVars,
                 areqs>>

\* the cleanup timer: every entry whose window is over is deleted
SweepWindows ==
  /\ windows' = [k \in RateKeys |->
                   IF now > windows[k].resetAt THEN NoWindow ELSE windows[k]]
  /\ UNCHANGED <<saltVars, resp, chain, records, now, cron, planVars,
                 sideVars, compVars, busVars, calls, areqs>>

\* ------------------------------------------------- accept, await by await
AcceptSlots == 1 .. AcceptMaxReqs
IdleAReq == [pc |-> "idle", agent |-> Null, id |-> 0, seller |-> Null,
             price |-> 0, listing |-> Null, count |-> 0]

\* what stays as it is while an accept runs
acceptFrame == <<offers, deposits, reqs, chain, records, now, cron, planVars,
                 sideVars, compVars, busVars, rateVars>>

\* PATCH /market/orders/[id] with action accept, up to the transfer: the
\* order is read and the buyer and the status delivered are checked
AcceptBegin(s, a, id) ==
  LET o == orders[id]
      err == IF ~OrderActionRoleOk("accept", o, a) THEN "forbidden"
             ELSE IF ~OrderActionStatusOk("accept", o.status) THEN "bad status"
             ELSE ""
  IN
  /\ areqs[s].pc = "idle"
  /\ id \in 1 .. Len(orders)
  /\ IF err # ""
       THEN /\ resp' = Response("accept", Null, FALSE, err)
            /\ UNCHANGED areqs
       ELSE /\ areqs' = [areqs EXCEPT ![s] =
                 [pc |-> "pay", agent |-> a, id |-> id, seller |-> o.seller_id,
                  price |-> o.price, listing |-> o.listing_id, count |-> 0]]
            /\ UNCHANGED resp
  /\ UNCHANGED <<balance, journal, orders, listings, acceptFrame>>

\* `await db.transferNacl(null, order.seller_id, order.price, ...)`; a
\* transfer that throws ends the request
AcceptPay(s) ==
  LET r == areqs[s] IN
  /\ r.pc = "pay"
  /\ IF TransferAllowed(balance, Null, r.seller, r.price)
       THEN /\ transferNacl(Null, r.seller, r.price, "service_payment")
            /\ areqs' = [areqs EXCEPT ![s].pc = "mark"]
            /\ UNCHANGED resp
       ELSE /\ UNCHANGED <<balance, journal>>
            /\ areqs' = [areqs EXCEPT ![s] = IdleAReq]
            /\ resp' = Response("accept", Null, FALSE, "transfer threw")
  /\ UNCHANGED <<orders, listings, acceptFrame>>

\* `await db.updateServiceOrder(id, { status: "accepted", ... })`
AcceptMark(s) ==
  /\ areqs[s].pc = "mark"
  /\ orders' = [orders EXCEPT ![areqs[s].id].status = OrderActionTarget("accept")]
  /\ areqs' = [areqs EXCEPT ![s].pc = "read"]
  /\ UNCHANGED <<balance, journal, listings, resp, acceptFrame>>

\* `await db.getMarketListing(order.listing_id)`
AcceptRead(s) ==
  /\ areqs[s].pc = "read"
  /\ areqs' = [areqs EXCEPT ![s].pc = "count",
                            ![s].count = listings[areqs[s].listing].completed_count]
  /\ UNCHANGED <<balance, journal, orders, listings, resp, acceptFrame>>

\* `completed_count: marketListing.completed_count + 1` and the response
AcceptCount(s) ==
  LET r == areqs[s] IN
  /\ r.pc = "count"
  /\ listings' = [listings EXCEPT ![r.listing].completed_count = r.count + 1]
  /\ areqs' = [areqs EXCEPT ![s] = IdleAReq]
  /\ resp' = Response("accept", Null, TRUE, "")
  /\ UNCHANGED <<balance, journal, orders, acceptFrame>>

\* a store call of the accept throws, or the process stops, after the
\* transfer: the request ends where it is
AcceptFail(s) ==
  /\ areqs[s].pc \in {"mark", "read", "count"}
  /\ areqs' = [areqs EXCEPT ![s] = IdleAReq]
  /\ resp' = Response("accept", Null, FALSE, "internal error")
  /\ UNCHANGED <<balance, journal, orders, listings, acceptFrame>>

InitListings == [l \in ListingIds |-> [status |-> "active", completed_count |-> 0]]

InitChain == [h \in BountyHashes |-> EmptyBounty]

Init ==
  /\ balance = InitBalance
  /\ journal = EmptyBag
  /\ listings = InitListings
  /\ orders = <<>>
  /\ offers = <<>>
  /\ deposits = <<>>
  /\ reqs = [s \in Slots |-> IdleReq]
  /\ resp = NoResponse
  /\ chain = InitChain
  /\ records = <<>>
  /\ now = 1
  /\ cron = IdleCron
  /\ milestones = <<>>
  /\ submissions = <<>>
  /\ mreqs = [s \in PlanSlots |-> IdleMReq]
  /\ analysis = NoAnalysis
  /\ competition = NoCompetition
  /\ entries = <<>>
  /\ freqs = [s \in FinalSlots |-> IdleFReq]
  /\ listeners = [c \in Channels |-> <<>>]
  /\ inbox = [fn \in ListenerFns |-> <<>>]
  /\ emitted = NoEmit
  /\ windows = [k \in RateKeys |-> NoWindow]
  /\ calls = [k \in RateKeys |-> <<>>]
  /\ areqs = [s \in AcceptSlots |-> IdleAReq]
  /\ extraction = NoExtraction
  /\ vault = NoVault

\* room left in the tables, for the guards of the specifications
JournalRoom(n) == BagCardinality(journal) < n
OrdersRoom(n) == Len(orders) < n
OffersRoom(n) == Len(offers) < n
DepositsRoom(n) == Len(deposits) + InFlightDeposits < n
RowsRoom(n) ==
  BagCardinality(journal) + Len(orders) + Len(offers) + Len(deposits)
    + InFlightDeposits < n

\* the wallet alone, every kind of amount
NextWallet ==
  \E a \in SaltActors, to \in SaltActors, q \in TransferAmounts :
    JournalRoom(WalletMaxJournal) /\ WalletTransferPOST(a, to, q)

\* the agent-to-agent transfers: the wallet and the offers
NextLedger ==
  \/ \E a \in SaltActors, to \in SaltActors :
       JournalRoom(LedgerMaxJournal) /\ WalletTransferPOST(a, to, 2 * Scale + 1)
  \/ \E a \in SaltActors, hasText \in BOOLEAN, price \in OfferPrices :
       OffersRoom(MaxOffers) /\ OfferPOST(a, "L2", hasText, price)
  \/ \E a \in SaltActors, id \in 1 .. MaxOffers, action \in OfferActions :
       JournalRoom(LedgerMaxJournal) /\ OfferRespondPOST(a, id, action)

\* the service orders
NextOrders ==
  \/ \E a \in SaltActors, l \in SaltListings, hasRequest \in BOOLEAN :
       /\ JournalRoom(MaxJournal) /\ OrdersRoom(MaxOrders)
       /\ OrderPOST(a, l, hasRequest)
  \/ \E a \in SaltActors, id \in 1 .. MaxOrders, action \in OrderActions,
        hasResponse \in BOOLEAN :
       JournalRoom(MaxJournal) /\ OrderPATCH(a, id, action, hasResponse)

\* the spec loop
NextLoop ==
  \/ \E s \in 1 .. LoopMaxReqs, a \in SaltActors, l \in SaltListings, amt \in DepositAmounts :
       DepositsRoom(MaxDeposits) /\ DepositBegin(s, a, l, amt)
  \/ \E s \in 1 .. LoopMaxReqs : DepositDebit(s)
  \/ \E s \in 1 .. LoopMaxReqs : DepositInsert(s)
  \/ \E s \in 1 .. LoopMaxReqs : DepositClarify(s)
  \/ \E l \in SaltListings, amt \in ConsumeAmounts :
       JournalRoom(MaxJournal) /\ consumeSpecDeposit(l, amt)
  \/ \E s \in 1 .. LoopMaxReqs, a \in SaltActors, l \in SaltListings : FreezeBegin(s, a, l)
  \/ \E s \in 1 .. LoopMaxReqs : FreezeMark(s)
  \/ \E s \in 1 .. LoopMaxReqs : FreezeListing(s)
  \/ \E s \in 1 .. LoopMaxReqs : FreezeRead(s)
  \/ \E s \in 1 .. LoopMaxReqs : FreezeCredit(s)
  \/ \E s \in 1 .. LoopMaxReqs : JournalRoom(MaxJournal) /\ FreezeJournal(s)

\* every Salt operation together, one spec-loop call in flight at a time
Next ==
  \/ \E a \in SaltActors, to \in SaltActors :
       RowsRoom(AllMaxRows) /\ WalletTransferPOST(a, to, 2 * Scale + 1)
  \/ \E a \in SaltActors :
       RowsRoom(AllMaxRows) /\ OfferPOST(a, "L2", TRUE, 1)
  \/ \E a \in SaltActors, id \in 1 .. AllMaxRows :
       RowsRoom(AllMaxRows) /\ OfferRespondPOST(a, id, "accept")
  \/ \E a \in SaltActors :
       RowsRoom(AllMaxRows) /\ OrderPOST(a, "L1", TRUE)
  \/ \E a \in SaltActors, id \in 1 .. AllMaxRows,
        action \in {"deliver", "accept", "dispute"} :
       RowsRoom(AllMaxRows) /\ OrderPATCH(a, id, action, TRUE)
  \/ \E a \in SaltActors, l \in SaltListings, amt \in DepositAmounts :
       RowsRoom(AllMaxRows) /\ DepositBegin(1, a, l, amt)
  \/ DepositDebit(1)
  \/ DepositInsert(1)
  \/ DepositClarify(1)
  \/ \E l \in SaltListings, amt \in ConsumeAmounts :
       RowsRoom(AllMaxRows) /\ consumeSpecDeposit(l, amt)
  \/ \E a \in SaltActors, l \in SaltListings : FreezeBegin(1, a, l)
  \/ FreezeMark(1)
  \/ FreezeListing(1)
  \/ FreezeRead(1)
  \/ FreezeCredit(1)
  \/ FreezeJournal(1)

\* the USDC escrow of listing U1 and the orders placed on it
DeadlineArgs == {0, 2}

NextUsdc ==
  \/ \E a \in {"W", "B"} :
       OrdersRoom(UsdcMaxOrders) /\ OrderPOST(a, "U1", TRUE)
  \/ \E a \in Agents, d \in DeadlineArgs, outcome \in Outcomes :
       EscrowCreatePOST(a, "U1", d, outcome)
  \/ \E a \in Agents, outcome \in Outcomes :
       EscrowClaimPOST(a, "U1", outcome)
  \/ \E a \in Wallets, outcome \in Outcomes :
       claim_bounty(a, "U1", outcome)
  \/ \E a \in Agents, id \in 1 .. UsdcMaxOrders, outcome \in Outcomes :
       EscrowSubmitPOST(a, id, outcome)
  \/ \E a \in Wallets, id \in 1 .. UsdcMaxOrders, outcome \in Outcomes :
       submit_work(a, id, outcome)
  \/ \E a \in Agents, id \in 1 .. UsdcMaxOrders, outcome \in Outcomes :
       EscrowApprovePOST(a, id, outcome)
  \/ \E a \in Agents, id \in 1 .. UsdcMaxOrders, outcome \in Outcomes :
       EscrowDisputePOST(a, id, outcome)
  \/ \E sender \in Wallets, h \in BountyHashes : submitBounty(sender, h)
  \/ now < MaxNow /\ Tick

SpecWallet == Init /\ [][NextWallet]_vars
SpecLedger == Init /\ [][NextLedger]_vars
SpecOrders == Init /\ [][NextOrders]_vars
SpecLoop == Init /\ [][NextLoop]_vars
Spec == Init /\ [][Next]_vars
SpecUsdc == Init /\ [][NextUsdc]_vars

\* listing l has no order yet and its escrow is claimed
Orderable(l) ==
  /\ chain[computeBountyHash(l)].status = "Claimed"
  /\ \A i \in DOMAIN orders : orders[i].listing_id # l

\* the reconciler over two escrows: each is created on chain by wallet W,
\* claimed by P through the tool, ordered once by W and submitted by P
NextCron ==
  \/ \E l \in UsdcListings : createBounty("W", l, 1 + DEFAULT_DEADLINE)
  \/ \E l \in UsdcListings : claim_bounty("P", l, "mined")
  \/ \E l \in UsdcListings :
       OrdersRoom(CronMaxOrders) /\ Orderable(l) /\ OrderPOST("W", l, TRUE)
  \/ \E id \in 1 .. CronMaxOrders : EscrowSubmitPOST("P", id, "mined")
  \/ \E id \in 1 .. CronMaxOrders, outcome \in {"mined", "lost_receipt"} :
       EscrowApprovePOST("W", id, outcome)
  \/ \E authorized \in BOOLEAN, dbOk \in BOOLEAN : CronGET(authorized, dbOk)
  \/ \E readOk \in BOOLEAN : CronRead(readOk)
  \/ \E outcome \in Outcomes, updateOk \in BOOLEAN : CronCall(outcome, updateOk)
  \/ CronReturn
  \/ CronReturnGET
  \/ now < CronMaxNow /\ Tick

SpecCron == Init /\ [][NextCron]_vars

\* the milestone plans of listing L1
NextPlan ==
  \/ \E a \in PlanActors, plan \in PlanInputs, wellFormed \in BOOLEAN :
       /\ Len(milestones) + Len(plan) <= PlanMaxRows
       /\ MilestonesPOST(a, "L1", plan, wellFormed)
  \/ \E id \in 1 .. PlanMaxRows : MilestoneStartPOST("W", id)
  \/ \E a \in PlanActors, id \in 1 .. PlanMaxRows, hasArtifacts \in BOOLEAN :
       /\ Len(submissions) < PlanMaxSubmissions
       /\ MilestoneSubmitPOST(a, id, hasArtifacts)
  \/ \E s \in PlanSlots, a \in PlanActors, id \in 1 .. PlanMaxRows :
       ApproveBegin(s, a, "L1", id)
  \/ \E s \in PlanSlots : ApproveMark(s)
  \/ \E s \in PlanSlots : ApproveReview(s)
  \/ \E s \in PlanSlots : ApprovePay(s)
  \/ \E a \in PlanActors, id \in 1 .. PlanMaxRows, hasFeedback \in BOOLEAN :
       MilestoneRejectPOST(a, "L1", id, hasFeedback)

SpecPlan == Init /\ [][NextPlan]_vars

\* the spec loop of listing L1 with its poster's calls overlapping
NextRace ==
  \/ \E s \in Slots :
       DepositsRoom(MaxDeposits) /\ DepositBegin(s, "P", "L1", 2)
  \/ \E s \in Slots : DepositDebit(s)
  \/ \E s \in Slots : DepositInsert(s)
  \/ \E s \in Slots : DepositClarify(s)
  \/ JournalRoom(MaxJournal) /\ consumeSpecDeposit("L1", 1)
  \/ \E s \in Slots : FreezeBegin(s, "P", "L1")
  \/ \E s \in Slots : FreezeMark(s)
  \/ \E s \in Slots : FreezeListing(s)
  \/ \E s \in Slots : FreezeRead(s)
  \/ \E s \in Slots : FreezeCredit(s)
  \/ \E s \in Slots : JournalRoom(MaxJournal) /\ FreezeJournal(s)

SpecRace == Init /\ [][NextRace]_vars

\* the impact analysis of every graph, cost table and seed list; the analysis
\* keeps no state, so each behaviour holds one
NextImpact ==
  \E dep \in DependsInputs, cost \in CostInputs, seeds \in SeedInputs :
    ~analysis.done /\ ImpactGET(dep, cost, seeds)

SpecImpact == Init /\ [][NextImpact]_vars

\* no finalize request is in flight
FinalizeIdle == \A s \in FinalSlots : freqs[s].pc = "idle"

\* the competition of listing K1: created by anyone, entered by the
\* entrants in turn, each entry evaluated once, then finalized by
\* overlapping requests
NextComp ==
  \/ \E a \in {"P", "W"}, l \in {"K1", "L1"}, prize \in PrizeInputs :
       CompetitionPOST(a, l, prize.type, prize.config, 0, "harness", NoDeadline)
  \/ \E i \in DOMAIN Entrants, hasArtifacts \in BOOLEAN :
       /\ i <= Len(entries) + 1 /\ FinalizeIdle
       /\ EntryPOST(Entrants[i], hasArtifacts)
  \/ \E id \in DOMAIN entries, succeeds \in BOOLEAN, score \in Scores :
       /\ entries[id].status = "pending" /\ FinalizeIdle
       /\ evaluateEntry(id, succeeds, score)
  \/ \E s \in FinalSlots, a \in {"P", "W"}, order \in EntryOrders :
       FinalizeBegin(s, a, "K1", order)
  \/ \E s \in FinalSlots : FinalizeEntries(s)
  \/ \E s \in FinalSlots : FinalizeMark(s)
  \/ \E s \in FinalSlots : FinalizePay(s)

SpecComp == Init /\ [][NextComp]_vars

\* the entries of a competition of listing K1 as requests overlap: the
\* poster creates it with or without a deadline, two agents enter, entries
\* are evaluated, the poster finalizes, time passes
EntryInputs ==
  {[maxSubmissions |-> 0, deadline |-> NoDeadline],
   [maxSubmissions |-> 2, deadline |-> EntryMaxNow - 1]}

NextEntry ==
  \/ \E c \in EntryInputs :
       CompetitionPOST("P", "K1", "winner-take-all", NoConfig,
                       c.maxSubmissions, "harness", c.deadline)
  \/ \E s \in FinalSlots, a \in {"W", "B"}, hasArtifacts \in BOOLEAN :
       EntryBegin(s, a, hasArtifacts)
  \/ \E s \in FinalSlots : EntryCount(s)
  \/ \E s \in FinalSlots : EntryCreate(s)
  \/ \E id \in DOMAIN entries, succeeds \in BOOLEAN :
       entries[id].status = "pending" /\ evaluateEntry(id, succeeds, 50)
  \/ \E s \in FinalSlots, order \in EntryOrders :
       FinalizeBegin(s, "P", "K1", order)
  \/ \E s \in FinalSlots : FinalizeEntries(s)
  \/ \E s \in FinalSlots : FinalizeMark(s)
  \/ \E s \in FinalSlots : FinalizePay(s)
  \/ now < EntryMaxNow /\ Tick

SpecEntry == Init /\ [][NextEntry]_vars

\* the evaluation of the entries of a competition of listing K1 as calls
\* overlap: the poster creates it with any of the evaluation methods, two
\* agents enter, the entries are evaluated at any time, with an evaluator
\* and without, and the poster finalizes
NextEval ==
  \/ \E method \in {"harness", "manual", "vote"} :
       CompetitionPOST("P", "K1", "winner-take-all", NoConfig, 0, method, NoDeadline)
  \/ \E a \in {"W", "B"} : FinalizeIdle /\ EntryPOST(a, TRUE)
  \/ \E s \in FinalSlots, id \in DOMAIN entries : EvaluateBegin(s, id)
  \/ \E s \in FinalSlots, hasEvaluator \in BOOLEAN, succeeds \in BOOLEAN :
       EvaluateEnd(s, hasEvaluator, succeeds, 50)
  \/ \E s \in FinalSlots, order \in EntryOrders :
       FinalizeBegin(s, "P", "K1", order)
  \/ \E s \in FinalSlots : FinalizeEntries(s)
  \/ \E s \in FinalSlots : FinalizeMark(s)
  \/ \E s \in FinalSlots : FinalizePay(s)

SpecEval == Init /\ [][NextEval]_vars

\* the extraction of every graph for every selection of its nodes, and the
\* validation of what was extracted
NextExtract ==
  \/ /\ extraction.pc = "idle"
     /\ \E graph \in GraphInputs, selected \in SUBSET BountyNodeIds :
          ExtractRun(graph, ArrayOf(selected))
  \/ ValidateRun

SpecExtract == Init /\ [][NextExtract]_vars

\* the contract under every sequence of its transactions, from every
\* sender, for two bounties, as time passes
NextVault ==
  \/ \E sender \in Senders, h \in BountyHashes, amount \in AmountInputs,
        deadline \in DeadlineInputs :
       createBountyCall(sender, h, amount, deadline)
  \/ \E sender \in Senders, h \in BountyHashes : claimBountyCall(sender, h)
  \/ \E sender \in Senders, h \in BountyHashes : submitBountyCall(sender, h)
  \/ \E sender \in Senders, h \in BountyHashes : approveBountyCall(sender, h)
  \/ \E sender \in Senders, h \in BountyHashes : disputeBountyCall(sender, h)
  \/ \E sender \in Senders, h \in BountyHashes, favorWorker \in BOOLEAN :
       resolveDispute(sender, h, favorWorker)
  \/ \E sender \in Senders, h \in BountyHashes : cancelBounty(sender, h)
  \/ \E h \in BountyHashes : autoReleaseCall(h)
  \/ \E sender \in Senders, newFeeBps \in FeeInputs : updatePlatformFee(sender, newFeeBps)
  \/ \E sender \in Senders : withdrawFees(sender)
  \/ now < VaultMaxNow /\ Tick

SpecVault == Init /\ [][NextVault]_vars

\* the event bus: SSE streams come and go, the routes emit
NextBus ==
  \/ \E c \in Channels, fn \in ListenerFns : subscribe(c, fn)
  \/ \E c \in Channels, fn \in ListenerFns : unsubscribe(c, fn)
  \/ \E c \in Channels, data \in EventTypes, throwers \in SUBSET ListenerFns :
       emitted.n < BusMaxEmits /\ emit(c, data, throwers)

SpecBus == Init /\ [][NextBus]_vars

\* the rate limiter of the offers route, the clock and the cleanup timer
CallsMade == Len(calls[RateKey("W")]) + Len(calls[RateKey("B")])

NextRate ==
  \/ \E a \in RateAgents, hasText \in BOOLEAN :
       /\ CallsMade < RateMaxCalls
       /\ hasText => OffersRoom(MaxOffers)
       /\ OfferRateLimitedPOST(a, "L2", hasText, 0)
  \/ now < RateMaxNow /\ Tick
  \/ SweepWindows

SpecRate == Init /\ [][NextRate]_vars

\* one order on L1, delivered, and its accepts
NextAccept ==
  \/ \E a \in SaltActors, hasRequest \in BOOLEAN :
       OrdersRoom(1) /\ OrderPOST(a, "L1", hasRequest)
  \/ \E a \in SaltActors, action \in {"start", "deliver"}, hasResponse \in BOOLEAN :
       OrderPATCH(a, 1, action, hasResponse)
  \/ \E s \in AcceptSlots, a \in SaltActors : AcceptBegin(s, a, 1)
  \/ \E s \in AcceptSlots : JournalRoom(MaxJournal) /\ AcceptPay(s)
  \/ \E s \in AcceptSlots : AcceptMark(s)
  \/ \E s \in AcceptSlots : AcceptRead(s)
  \/ \E s \in AcceptSlots : AcceptCount(s)
  \/ \E s \in AcceptSlots : AcceptFail(s)

SpecAccept == Init /\ [][NextAccept]_vars

\* one milestone of L1 worked by W: submissions, also overlapping, and
\* their reviews by P
SubmitsBegun ==
  Len(submissions) + Cardinality({s \in PlanSlots : mreqs[s].pc = "create"})

NextSubmit ==
  \/ milestones = <<>> /\ MilestonesPOST("P", "L1", <<100>>, TRUE)
  \/ MilestoneStartPOST("W", 1)
  \/ \E s \in PlanSlots, hasArtifacts \in BOOLEAN :
       SubmitsBegun < SubmitMaxRows /\ SubmitBegin(s, "W", 1, hasArtifacts)
  \/ \E s \in PlanSlots : SubmitCreate(s)
  \/ \E s \in PlanSlots : SubmitMark(s)
  \/ MilestoneRejectPOST("P", "L1", 1, TRUE)
  \/ \E s \in PlanSlots : ApproveBegin(s, "P", "L1", 1)
  \/ \E s \in PlanSlots : ApproveMark(s)
  \/ \E s \in PlanSlots : ApproveReview(s)
  \/ \E s \in PlanSlots : JournalRoom(MaxJournal) /\ ApprovePay(s)

SpecSubmit == Init /\ [][NextSubmit]_vars

C2_SumConserved == TotalBalance(balance) = TotalBalance(InitBalance)

\* a wallet transfer and an accepted offer have both moved Salt
C2_Witness ==
  /\ \E e \in BagToSet(journal) : e.kind = "transfer"
  /\ \E e \in BagToSet(journal) : e.kind = "trade"
  /\ balance # InitBalance

\* C3: the sum of all balances equals the initial sum plus the issuance rows
\* minus the escrow/burn rows of the journal
C3_BalanceMatchesJournal ==
  TotalBalance(balance)
    = TotalBalance(InitBalance) + Issued(journal) - Burned(journal)

\* the requests refused when the amount is compared as it was sent
C4_RefusedAsClaimed(a, to, q) ==
  \/ q <= 0
  \/ q > MAX_TRANSFER * Scale
  \/ a = to
  \/ balance[a] * Scale < q

\* C4, the amount compared as sent: a transfer request whose amount is <= 0
\* or > 10000, or whose sender is the recipient, or whose sender's balance is
\* below the amount, changes neither a balance nor the journal and is
\* answered with an error
C4_RejectsAsClaimed ==
  [][\A a \in SaltActors, to \in SaltActors, q \in TransferAmounts :
       (WalletTransferPOST(a, to, q) /\ C4_RefusedAsClaimed(a, to, q))
         => (UNCHANGED <<balance, journal>> /\ ~resp'.ok)]_vars

\* the request amounts the route refuses: below 1, above 10000, to oneself,
\* or more whole Salt than the sender has
C4_RefusedByFloor(a, to, q) ==
  \/ q < Scale
  \/ q > MAX_TRANSFER * Scale
  \/ a = to
  \/ balance[a] < FloorUnits(q)

\* C4, the amount rounded down: a transfer request is refused, with no
\* balance and no journal change, when the amount is below 1 (so also every
\* fraction between 0 and 1), above 10000, sent to oneself, or when the
\* sender's balance is below the amount rounded down to whole Salt
C4_RejectsByFloor ==
  [][\A a \in SaltActors, to \in SaltActors, q \in TransferAmounts :
       (WalletTransferPOST(a, to, q) /\ C4_RefusedByFloor(a, to, q))
         => (UNCHANGED <<balance, journal>> /\ ~resp'.ok)]_vars

\* a transfer was refused by the ledger after an earlier one went through
C4_Witness ==
  /\ resp.op = "transfer" /\ ~resp.ok /\ resp.err = "transfer failed"
  /\ balance # InitBalance

\* the order status changes of section 4.C
AllowedOrderMoves ==
  {<<"pending", "in_progress">>, <<"pending", "delivered">>,
   <<"in_progress", "delivered">>, <<"delivered", "accepted">>,
   <<"delivered", "disputed">>, <<"in_progress", "disputed">>}

\* C5: an order's status changes only by pending -> in_progress,
\* pending|in_progress -> delivered, delivered -> accepted and
\* delivered|in_progress -> disputed
C5_OrderMovesAllowed ==
  [][\A id \in 1 .. Len(orders) :
       orders'[id].status # orders[id].status
         => <<orders[id].status, orders'[id].status>> \in AllowedOrderMoves]_vars

\* C6: a successful accept makes the order accepted, credits the seller the
\* price, sets the listing to completed and adds 1 to completed_count
C6_AcceptCompletesListing ==
  [][\A id \in 1 .. Len(orders) :
       (orders[id].status = "delivered" /\ orders'[id].status = "accepted")
         => LET o == orders[id] IN
            /\ balance'[o.seller_id] = balance[o.seller_id] + o.price
            /\ listings'[o.listing_id].status = "completed"
            /\ listings'[o.listing_id].completed_count
                 = listings[o.listing_id].completed_count + 1]_vars

\* C7: a listing has at most one order that is pending, in_progress or delivered
C7_OneOpenOrderPerListing ==
  \A l \in ListingIds :
    Cardinality({id \in 1 .. Len(orders) :
                   orders[id].listing_id = l /\ NonTerminalOrder(orders[id])}) <= 1

\* the record status changes of section 4.C
AllowedRecordMoves ==
  {<<"created", "claimed">>, <<"claimed", "submitted">>,
   <<"submitted", "approved">>, <<"submitted", "disputed">>,
   <<"submitted", "auto_released">>, <<"created", "cancelled">>}

\* C8: a bounty hash has one USDC record; a record is first written with
\* status created and its status changes only by created -> claimed,
\* claimed -> submitted, submitted -> approved | disputed | auto_released and
\* created -> cancelled
C8_OneRecordMovesAllowed ==
  [][/\ \A i \in DOMAIN records' : \A j \in DOMAIN records' :
          records'[i].bounty_hash = records'[j].bounty_hash => i = j
     /\ \A i \in DOMAIN records' :
          IF i \in DOMAIN records
            THEN \/ records'[i].status = records[i].status
                 \/ <<records[i].status, records'[i].status>> \in AllowedRecordMoves
            ELSE records'[i].status = "created"]_vars

\* the escrow of listing l was created by P and claimed by W
ClaimedByW(l) ==
  /\ l \in UsdcListings
  /\ chain[computeBountyHash(l)].poster = "P"
  /\ chain[computeBountyHash(l)].worker = "W"

\* a caller was denied: no chain call, no record change, an error returned
Denied == ~resp'.chainCall /\ ~resp'.ok /\ UNCHANGED <<chain, records>>

\* C9: with the escrow created by P and claimed by W, create passes the gate
\* only for P, claim only for a wallet holder other than P, submit only for
\* W, approve only for P, dispute only for P or W; W's submit and P's approve
\* pass the gate; every other caller is denied with no chain call and no
\* record change
C9_RoleGates ==
  [][/\ \A a \in Agents, l \in UsdcListings, d \in DeadlineArgs,
           outcome \in Outcomes :
          (EscrowCreatePOST(a, l, d, outcome) /\ ClaimedByW(l))
            => (a # "P" => Denied)
     /\ \A a \in Agents, l \in UsdcListings, outcome \in Outcomes :
          (EscrowClaimPOST(a, l, outcome) /\ ClaimedByW(l))
            => (~(a # "P" /\ a \in Wallets) => Denied)
     /\ \A a \in Agents, id \in 1 .. UsdcMaxOrders, outcome \in Outcomes :
          (EscrowSubmitPOST(a, id, outcome) /\ ClaimedByW(orders[id].listing_id))
            => IF a = "W" THEN resp'.chainCall ELSE Denied
     /\ \A a \in Agents, id \in 1 .. UsdcMaxOrders, outcome \in Outcomes :
          (EscrowApprovePOST(a, id, outcome) /\ ClaimedByW(orders[id].listing_id))
            => IF a = "P" THEN resp'.chainCall ELSE Denied
     /\ \A a \in Agents, id \in 1 .. UsdcMaxOrders, outcome \in Outcomes :
          (EscrowDisputePOST(a, id, outcome) /\ ClaimedByW(orders[id].listing_id))
            => (a \notin {"P", "W"} => Denied)]_vars

\* C10: when the chain call of a create, claim, submit, approve or dispute
\* fails, no USDC record and no order changes and the caller gets the failure
C10_FailedCallKeepsStatus ==
  [][(resp'.op \in EscrowOps /\ resp'.chainCall /\ resp'.err = "chain call failed")
       => (UNCHANGED <<records, orders>> /\ ~resp'.ok)]_vars

\* a claim was mined but its call failed: the bounty is Claimed on chain, the
\* caller got the failure and the only record is still the created one
C10_Witness ==
  /\ resp.op = "claim" /\ resp.chainCall /\ ~resp.ok
  /\ chain[computeBountyHash("U1")].status = "Claimed"
  /\ Len(records) = 1 /\ records[1].status = "created"
  /\ Len(orders) > 0

\* the reconciler has just dealt with the first record of its queue: a step
\* taken from pc
CronStepFrom(pc) == cron.pc = pc /\ cron.queue # <<>> /\ cron' # cron

\* the bounty is Submitted on chain and the release period has passed at the
\* time the run read
DueOnChain(b) ==
  b.status = "Submitted" /\ cron.now >= b.submittedAt + autoReleaseSeconds

\* C11: the reconciler goes on to call autoRelease for a record of its batch
\* of submitted records exactly when the bounty is Submitted on chain and the
\* time of the run is at least submittedAt plus the release period, unless
\* the read of the bounty failed; when the call is confirmed and nothing
\* threw, the rows of the bounty are auto_released with the transaction hash
\* and completed_at set
C11_ReleaseExactlyWhenDue ==
  [][/\ CronStepFrom("read") =>
          LET b == chain[Head(cron.queue)] IN
          /\ cron'.pc = "call" => DueOnChain(b)
          /\ DueOnChain(b) => (cron'.pc = "call" \/ cron'.errors # cron.errors)
     /\ (CronStepFrom("call") /\ cron'.errors = cron.errors) =>
          LET h == Head(cron.queue) IN
          /\ chain'[h].status = "AutoReleased"
          /\ \A i \in DOMAIN records' :
               records'[i].bounty_hash = h =>
                 /\ records'[i].status = "auto_released"
                 /\ records'[i].tx_hash = ReceiptHash("autoRelease")
                 /\ records'[i].completed_at = now]_vars

\* in one run, the bounty submitted a whole period before was released and
\* its record is auto_released, and the bounty submitted one unit later was
\* skipped and its record is still submitted
C11_Witness ==
  /\ cron.pc = "read" /\ cron.queue = <<>> /\ cron.errors = <<>>
  /\ cron.released = 1
  /\ \E i \in DOMAIN records, j \in DOMAIN records :
       /\ records[i].status = "auto_released"
       /\ records[i].completed_at = cron.now
       /\ chain[records[i].bounty_hash].submittedAt + autoReleaseSeconds = cron.now
       /\ records[j].status = "submitted"
       /\ chain[records[j].bounty_hash].status = "Submitted"
       /\ chain[records[j].bounty_hash].submittedAt + autoReleaseSeconds = cron.now + 1

\* the record status that names an on-chain status other than Submitted
DriftStatus ==
  [Approved |-> "approved", Disputed |-> "disputed", Cancelled |-> "cancelled",
   AutoReleased |-> "auto_released"]

\* C12: when the reconciler has read the bounty of a submitted record and
\* its on-chain status is Approved, Disputed, Cancelled or AutoReleased, the
\* rows of the bounty are advanced to that status
C12_DriftCorrected ==
  [][(CronStepFrom("read") /\ cron'.errors = cron.errors) =>
       LET h == Head(cron.queue) IN
       chain[h].status \in DOMAIN DriftStatus =>
         \A i \in DOMAIN records' :
           records'[i].bounty_hash = h =>
             records'[i].status = DriftStatus[chain[h].status]]_vars

C14_FailureIsolated ==
  [][/\ ((CronStepFrom("read") \/ CronStepFrom("call"))
          /\ cron'.errors # cron.errors) =>
          /\ cron'.errors = Append(cron.errors, Head(cron.queue))
          /\ cron'.released = cron.released
          /\ cron'.queue = Tail(cron.queue)
          /\ cron'.pc = "read"
     /\ (CronStepFrom("call") /\ cron'.released = cron.released) =>
          cron'.errors # cron.errors
     /\ (cron.pc = "read" /\ cron.queue = <<>> /\ cron' # cron) =>
          (resp'.errors = cron.errors /\ resp'.amt = cron.released)]_vars

\* the first record of the batch failed after its release was mined, the
\* second was released, and the run is about to return both
C14_Witness ==
  /\ cron.pc = "read" /\ cron.queue = <<>>
  /\ Len(cron.errors) = 1 /\ cron.released = 1
  /\ \E i \in DOMAIN records, j \in DOMAIN records :
       /\ i < j
       /\ records[i].bounty_hash = cron.errors[1]
       /\ records[i].status = "submitted"
       /\ chain[records[i].bounty_hash].status = "AutoReleased"
       /\ records[j].status = "auto_released"

\* the milestones of listing l
MilestonesOf(l) == {i \in DOMAIN milestones : milestones[i].listing_id = l}

RECURSIVE SumPercent(_)
SumPercent(S) ==
  IF S = {} THEN 0
  ELSE LET i == CHOOSE j \in S : TRUE
       IN milestones[i].budget_percentage + SumPercent(S \ {i})

\* C15: for every listing that has milestones, their budget_percentage sums
\* to 100 within 0.01 and their order_index values are 0 .. n-1, each once
C15_PlanSumsAndOrder ==
  \A l \in ListingIds :
    MilestonesOf(l) # {} =>
      /\ BudgetSumOk(SumPercent(MilestonesOf(l)))
      /\ \A k \in 0 .. Cardinality(MilestonesOf(l)) - 1 :
           Cardinality({i \in MilestonesOf(l) : milestones[i].order_index = k}) = 1

\* C16: a milestone that is in_progress, submitted or approved has every
\* milestone of its listing with a lower order_index approved
C16_LowerApprovedFirst ==
  \A i \in DOMAIN milestones :
    milestones[i].status \in {"in_progress", "submitted", "approved"} =>
      ~PreviousNotApproved(milestones, i)

\* every milestone of listing l is approved, in the state after the step
AllApprovedAfter(l) ==
  \A i \in DOMAIN milestones' :
    milestones'[i].listing_id = l => milestones'[i].status = "approved"

\* C17: when an approval returns and every milestone of the listing is
\* approved, the status of the listing is completed
C17_LastApprovalCompletes ==
  [][\A s \in PlanSlots :
       (ApprovePay(s) /\ resp'.ok) =>
         LET l == milestones[mreqs[s].id].listing_id IN
         AllApprovedAfter(l) => listings'[l].status = "completed"]_vars

RECURSIVE SumPaid(_)
SumPaid(S) ==
  IF S = {} THEN 0
  ELSE LET e == CHOOSE x \in S : TRUE
       IN (IF e.kind = "milestone_payment" THEN e.amount * CopiesIn(e, journal) ELSE 0)
          + SumPaid(S \ {e})

\* the Salt paid by the milestone_payment transfers
MilestonePaid == SumPaid(BagToSet(journal))

RECURSIVE SumRelease(_)
SumRelease(S) ==
  IF S = {} THEN 0
  ELSE LET i == CHOOSE j \in S : TRUE
       IN (IF milestones[i].status = "approved"
             THEN ReleaseAmount(ListingRow[milestones[i].listing_id].price,
                                milestones[i].budget_percentage)
             ELSE 0)
          + SumRelease(S \ {i})

\* C18: with no approve request in flight, the Salt paid by
\* milestone_payment transfers for listing L1 is the sum of the release
\* amounts of its approved milestones and is at most the price of the listing
C18_PaidMatchesApproved ==
  (\A s \in PlanSlots : mreqs[s].pc = "idle") =>
    /\ MilestonePaid = SumRelease(MilestonesOf("L1"))
    /\ MilestonePaid <= ListingRow["L1"].price

\* C19: the step of a freeze that writes the balance raises the balance of
\* the depositor by amount - consumed of the deposit it froze, and a freeze
\* that returns success leaves that deposit frozen and the listing frozen
C19_FreezeRefundsRemainder ==
  [][\A s \in Slots :
       /\ FreezeCredit(s) =>
            LET r == reqs[s] IN
            balance'[r.agent] - balance[r.agent]
              = deposits[r.dep].amount - deposits[r.dep].consumed
       /\ ((FreezeJournal(s) \/ FreezeListing(s)) /\ resp'.op = "freeze") =>
            LET r == reqs[s] IN
            /\ deposits'[r.dep].status = "frozen"
            /\ listings'[r.listing].status = "frozen"]_vars

\* C20: each listing has at most one spec deposit with status active
C20_OneActiveDeposit ==
  \A l \in ListingIds : Cardinality(ActiveDeposits(l)) <= 1

\* the moves of a listing's status named by the listing life cycle
AllowedListingMoves ==
  {<<"active", "clarifying">>, <<"clarifying", "frozen">>,
   <<"active", "completed">>, <<"frozen", "completed">>}
    \cup {<<from, "cancelled">> :
            from \in {"active", "clarifying", "frozen", "completed"}}

\* C21: every change of a listing's status is active -> clarifying,
\* clarifying -> frozen, active or frozen -> completed, or any -> cancelled,
\* and a completed or cancelled listing keeps its status
C21_ListingMovesAllowed ==
  [][\A l \in ListingIds :
       listings'[l].status # listings[l].status =>
         /\ <<listings[l].status, listings'[l].status>> \in AllowedListingMoves
         /\ listings[l].status \notin {"completed", "cancelled"}]_vars

\* the nodes that depend directly on a node of S
DirectDependents(dep, S) == {n \in NodeIds : dep[n] \cap S # {}}

\* the nodes reachable from S along reverse dependencies, S included
RECURSIVE ReachableFrom(_, _)
ReachableFrom(dep, S) ==
  IF DirectDependents(dep, S) \subseteq S THEN S
  ELSE ReachableFrom(dep, S \cup DirectDependents(dep, S))

\* ceil(0.20 * total), in exact arithmetic
CeilFifth(total) == (total + 4) \div 5

\* C22: the analysis returns changed = the seeds, direct = the non-seed nodes
\* that depend directly on a seed, transitive = the other nodes reachable
\* from the seeds, the three pairwise disjoint, total = the number of
\* distinct nodes of their union, delta_cost = ceil(0.20 * the sum of their
\* costs) and risk = low up to 2, medium up to 5, else high
C22_ImpactAsSpecified ==
  analysis.done =>
    LET r == analysis.impact
        S == SeqToSet(analysis.seeds)
        direct == DirectDependents(analysis.depends, S) \ S
        reach == ReachableFrom(analysis.depends, S)
        total == Cardinality(reach)
    IN
    /\ r.changed_nodes = analysis.seeds
    /\ SeqToSet(r.directly_affected) = direct
    /\ Len(r.directly_affected) = Cardinality(direct)
    /\ SeqToSet(r.transitively_affected) = (reach \ S) \ direct
    /\ Len(r.transitively_affected) = Cardinality((reach \ S) \ direct)
    /\ r.total_affected_count = total
    /\ r.estimated_cost_increase
         = CeilFifth(SumOver([n \in NodeIds |-> analysis.cost[n]], reach))
    /\ r.risk_level = (IF total <= 2 THEN "low"
                       ELSE IF total <= 5 THEN "medium" ELSE "high")

NoDuplicates(q) == Len(q) = Cardinality(SeqToSet(q))

RiskRank(r) == CASE r = "low" -> 1 [] r = "medium" -> 2 [] OTHER -> 3

ImpactOf(seeds) == calculateChangeImpact(analysis.depends, analysis.cost, seeds)

FinalizeSucceeded == resp.op = "finalize" /\ resp.ok

SumPrizes(S) == SumOver([i \in DOMAIN entries |-> entries[i].prize_amount], S)

\* C24: after a successful finalize the prize amounts of the entries sum to
\* at most the total prize, and to exactly the total prize under
\* winner-take-all and top-3
C24_PrizesSumToTotal ==
  FinalizeSucceeded =>
    /\ \A i \in DOMAIN entries : entries[i].prize_amount # NaN
    /\ SumPrizes(DOMAIN entries) <= TotalPrize("K1")
    /\ competition.prize_distribution \in {"winner-take-all", "top-3"} =>
         SumPrizes(DOMAIN entries) = TotalPrize("K1")

\* the number of competition_prize transfers to an agent
PrizesPaidTo(a) ==
  LET rows == {e \in BagToSet(journal) : e.kind = "competition_prize" /\ e.to = a}
  IN SumOver([e \in rows |-> CopiesIn(e, journal)], rows)

\* C25: under any interleaving of finalize requests no agent is paid the
\* prize of the competition more than once
C25_PrizesPaidOnce == \A a \in Agents : PrizesPaidTo(a) <= 1

\* entry i is ranked before entry j: higher score, or the same score and
\* submitted earlier
RankedBefore(i, j) ==
  \/ entries[i].score > entries[j].score
  \/ entries[i].score = entries[j].score
       /\ entries[i].submitted_at < entries[j].submitted_at

\* the entries that took part in the ranking
Ranked == {i \in DOMAIN entries :
             entries[i].score # NoScore /\ entries[i].status \in {"scored", "winner"}}

\* C26: after a successful finalize the ranks follow the score, descending,
\* ties by earlier submitted_at, the first entry of that order has rank 1 and
\* status winner, and winner_id is its agent
C26_RankedByScoreThenTime ==
  FinalizeSucceeded =>
    /\ \A i \in Ranked, j \in Ranked :
         (entries[i].rank # 0 /\ entries[j].rank # 0
            /\ entries[i].rank < entries[j].rank) => RankedBefore(i, j)
    /\ \A i \in Ranked :
         (\A j \in Ranked \ {i} : RankedBefore(i, j)) =>
           /\ entries[i].rank = 1
           /\ entries[i].status = "winner"
           /\ competition.winner_id = entries[i].agent_id

\* a request that has already succeeded: an order of this buyer on the
\* listing exists, the offer is accepted, the order is accepted
OrderPlaced(a, l) ==
  \E i \in DOMAIN orders : orders[i].listing_id = l /\ orders[i].buyer_id = a

\* balances and record statuses stay as they are
RetryKeeps == UNCHANGED <<balance, orders, offers, listings>>

\* C27: repeating a request that has already succeeded (placing the same
\* order, accepting the same offer, accepting the same order) leaves the
\* balances and the statuses of orders, offers and listings unchanged
C27_RetryChangesNothing ==
  [][/\ \A a \in SaltActors :
          (OrderPlaced(a, "L1") /\ OrderPOST(a, "L1", TRUE)) => RetryKeeps
     /\ \A a \in SaltActors, id \in DOMAIN offers :
          (offers[id].status = "accepted" /\ OfferRespondPOST(a, id, "accept"))
            => RetryKeeps
     /\ \A a \in SaltActors, id \in DOMAIN orders :
          (orders[id].status = "accepted" /\ OrderPATCH(a, id, "accept", TRUE))
            => RetryKeeps]_vars

\* C28: after an emit every listener subscribed to the channel has been
\* called with the event, whichever listeners threw, and no exception came
\* back to the emitter
C28_ThrowingListenerIsolated ==
  emitted.n > 0 =>
    /\ emitted.called = emitted.subscribers
    /\ \A fn \in emitted.subscribers :
         inbox[fn] # <<>> /\ inbox[fn][Len(inbox[fn])] = emitted.data
    /\ ~emitted.threw

\* the first of the two listeners of a channel threw, the second did not
C28_Witness ==
  /\ emitted.n > 0
  /\ Len(listeners[emitted.channel]) = 2
  /\ SeqToSet(listeners[emitted.channel]) = emitted.subscribers
  /\ listeners[emitted.channel][1] \in emitted.throwers
  /\ listeners[emitted.channel][2] \notin emitted.throwers

\* the allowed requests of a key, window by window: a window runs from its
\* first allowed request until PredictionWindow later, and the first allowed
\* request after that starts the next one; no window has more than
\* PredictionLimit of them
RECURSIVE WindowsHold(_, _, _, _)
WindowsHold(q, i, start, n) ==
  IF i > Len(q) THEN TRUE
  ELSE IF ~q[i].allowed THEN WindowsHold(q, i + 1, start, n)
  ELSE IF start = 0 \/ q[i].at > start + PredictionWindow
    THEN WindowsHold(q, i + 1, q[i].at, 1)
  ELSE n + 1 <= PredictionLimit /\ WindowsHold(q, i + 1, start, n + 1)

\* the time of the first allowed request of the last window of a key
RECURSIVE LastWindowStart(_, _, _)
LastWindowStart(q, i, start) ==
  IF i > Len(q) THEN start
  ELSE IF q[i].allowed /\ (start = 0 \/ q[i].at > start + PredictionWindow)
    THEN LastWindowStart(q, i + 1, q[i].at)
  ELSE LastWindowStart(q, i + 1, start)

WindowExpired(k) ==
  LET start == LastWindowStart(calls[k], 1, 0)
  IN start # 0 /\ now > start + PredictionWindow

\* C29: for every key no window has more than `limit` allowed requests; a
\* denied request leaves the map as it is and a request leaves the entries
\* of the other keys as they are; the first request after the window has
\* expired is allowed and starts a new window
C29_AtMostLimitPerWindow ==
  [][\A k \in RateKeys :
       /\ WindowsHold(calls'[k], 1, 0, 0)
       /\ calls'[k] # calls[k] =>
            /\ \A other \in RateKeys \ {k} : windows'[other] = windows[other]
            /\ ~calls'[k][Len(calls'[k])].allowed => windows' = windows
            /\ WindowExpired(k) =>
                 /\ calls'[k][Len(calls'[k])].allowed
                 /\ windows'[k] = [count |-> 1, resetAt |-> now + PredictionWindow]]_vars

\* a key was allowed `limit` requests, denied the next, and allowed again
\* after its window had expired
C29_Witness ==
  \E k \in RateKeys :
    /\ Len(calls[k]) = PredictionLimit + 2
    /\ \A i \in 1 .. PredictionLimit : calls[k][i].allowed
    /\ ~calls[k][PredictionLimit + 1].allowed
    /\ calls[k][PredictionLimit + 2].allowed
    /\ windows[k].count = 1

\* the service_payment rows of the journal
ServicePayments ==
  LET rows == {e \in BagToSet(journal) : e.kind = "service_payment"}
  IN SumOver([e \in rows |-> CopiesIn(e, journal)], rows)

\* C30: under any interleaving of accepts of the delivered order, and when
\* an accept fails between its steps, the seller is credited at most once,
\* and once no accept is running the seller has been credited exactly when
\* the order is accepted
C30_AcceptAtomic ==
  /\ ServicePayments <= 1
  /\ (orders # <<>> /\ \A s \in AcceptSlots : areqs[s].pc = "idle") =>
       (ServicePayments = 1 <=> orders[1].status = "accepted")

\* the spec deposits taken from an agent and the freeze credits returned to
\* the agent, as the rows of spec_deposits and of the journal record them
DepositDebits(a) ==
  LET rows == {d \in DOMAIN deposits : deposits[d].agent_id = a}
  IN SumOver([d \in rows |-> deposits[d].amount], rows)

FreezeCreditRows(a) ==
  {e \in BagToSet(journal) : e.kind = "spec_freeze_credit" /\ e.to = a}

FreezeCredits(a) ==
  SumOver([e \in FreezeCreditRows(a) |-> e.amount * CopiesIn(e, journal)],
          FreezeCreditRows(a))

FreezeCreditCount(a) ==
  SumOver([e \in FreezeCreditRows(a) |-> CopiesIn(e, journal)], FreezeCreditRows(a))

FrozenDeposits(a) ==
  {d \in DOMAIN deposits : deposits[d].agent_id = a /\ deposits[d].status = "frozen"}

\* C31: once no spec-loop call is running, the balance of the depositor is
\* the initial balance minus every deposit made plus every freeze credit
\* returned, whatever the interleaving, and no deposit was refunded twice
C31_SpecLoopSerialized ==
  (\A s \in Slots : reqs[s].op = "idle") =>
    /\ balance["P"] = InitBalance["P"] - DepositDebits("P") + FreezeCredits("P")
    /\ FreezeCreditCount("P") <= Cardinality(FrozenDeposits("P"))

\* the pending submissions of a milestone
PendingSubmissions(id) ==
  {i \in DOMAIN submissions :
     submissions[i].milestone_id = id /\ submissions[i].status = "pending"}

\* C32: every milestone has at most one submission in status pending
C32_OnePendingSubmission ==
  \A id \in DOMAIN milestones : Cardinality(PendingSubmissions(id)) <= 1

\* the entries of every agent are within the limit of the competition
EntriesWithinLimit ==
  competition.status # "none" =>
    \A a \in EntrantIds : Cardinality(EntriesByAgent(a)) <= competition.max_submissions

\* a step that adds an entry is taken while the competition is active and
\* its deadline has not passed
EntryMadeInTime ==
  Len(entries') > Len(entries) =>
    /\ competition.status = "active"
    /\ ~DeadlinePassed(competition.deadline, now)

\* C33: as submissions overlap, no agent has more entries than
\* max_submissions of the competition, and every entry is created while the
\* competition is active and before its deadline
C33_EntriesWithinRules == [][EntriesWithinLimit' /\ EntryMadeInTime]_vars

\* the calls of evaluateEntry that have not returned, for an entry
EvaluationsInFlight(id) ==
  {s \in FinalSlots : freqs[s].pc = "evaluate" /\ freqs[s].entry = id}

\* the entry is scored with a number, or disqualified with the reason
EntrySettled(e) ==
  \/ e.status = "scored" /\ e.score \in Nat
  \/ e.status = "disqualified" /\ e.evaluation_result \notin {"", "success"}

PrizeCreditedTo(a) ==
  LET rows == {e \in BagToSet(journal) : e.kind = "competition_prize" /\ e.to = a}
  IN SumOver([e \in rows |-> e.amount * CopiesIn(e, journal)], rows)

\* the prize_amount of the entries of an agent, summed
PrizeAwardedTo(a) == SumPrizes(EntriesByAgent(a))

\* C35: once a finalize has returned success and none is running, every
\* agent has been credited by competition_prize transfers exactly the sum of
\* prize_amount of its entries
C35_CreditedWhatWasAwarded ==
  (FinalizeSucceeded /\ FinalizeIdle) =>
    \A a \in EntrantIds :
      /\ \A i \in EntriesByAgent(a) : entries[i].prize_amount # NaN
      /\ PrizeCreditedTo(a) = PrizeAwardedTo(a)

\* consumed of a deposit is within the deposit, and the deposit is in status
\* consumed exactly when all of it is consumed
ConsumedWithin(dep) ==
  /\ 0 <= dep.consumed /\ dep.consumed <= dep.amount
  /\ dep.status = "consumed" <=> dep.consumed = dep.amount

\* C36: over every sequence of consume calls, with any amounts, consumed of
\* a deposit never decreases and stays between 0 and the amount of the
\* deposit, and the status is consumed exactly when consumed equals the
\* amount
C36_ConsumedMonotoneAndBounded ==
  [][\A d \in DOMAIN deposits :
       /\ deposits'[d].consumed >= deposits[d].consumed
       /\ ConsumedWithin(deposits'[d])]_vars

\* the nodes that are not done and not missing
NotDone(graph) ==
  {n \in BountyNodeIds : HasNode(graph.nodes, n) /\ graph.nodes[n] # "done"}

\* the nodes of S and the not-done nodes that depend on a node of S, on and
\* on: every not-done node with a chain of depends_on edges through
\* not-done nodes into S
RECURSIVE ChainsInto(_, _)
ChainsInto(graph, S) ==
  LET more == {n \in NotDone(graph) :
                 \E i \in DOMAIN graph.edges :
                   /\ graph.edges[i].type = "depends_on"
                   /\ graph.edges[i].from = n
                   /\ graph.edges[i].to \in S}
  IN IF more \subseteq S THEN S ELSE ChainsInto(graph, S \cup more)

HeldBounties ==
  {h \in BountyHashes :
     vault.bounties[h].poster # Null
       /\ vault.bounties[h].status \in {"Open", "Claimed", "Submitted", "Disputed"}}

HeldFunds ==
  SumOver([h \in BountyHashes |->
             vault.bounties[h].amount + vault.bounties[h].workerStake], HeldBounties)

\* C39: after any sequence of transactions the USDC of the contract is
\* accumulatedFees plus amount + workerStake of every bounty that is Open,
\* Claimed, Submitted or Disputed
C39_VaultBalanced == vault.usdc = vault.accumulatedFees + HeldFunds

\* one bounty was paid out under a changed fee, another is held with its
\* stake, and fees were withdrawn
C39_Witness ==
  /\ vault.platformFeeBps = MaxPlatformFeeBps
  /\ vault.accumulatedFees = 0
  /\ \E h \in BountyHashes :
       vault.bounties[h].status \in {"Approved", "AutoReleased"}
  /\ \E h \in BountyHashes :
       vault.bounties[h].status = "Disputed" /\ vault.bounties[h].workerStake > 0
  /\ vault.usdc > 0

\* C40: whenever a listing is clarifying, a freeze sent by its poster passes
\* every check of freezeSpec and so goes on to mark the listing frozen,
\* whatever part of the deposit has been consumed
C40_ClarifyingCanFreeze ==
  \A l \in SaltListings :
    listings[l].status = "clarifying" => FreezeError(ListingRow[l].agent_id, l) = ""

\* what finalize settles of an entry
SettledFields(e) ==
  [status |-> e.status, score |-> e.score, rank |-> e.rank,
   prize_amount |-> e.prize_amount]

\* C38: once the competition is finalized no step changes the status, the
\* score, the rank or the prize_amount of an entry, and none adds an entry
C38_FinalizedIsFrozen ==
  [][competition.status = "finalized" =>
       /\ Len(entries') = Len(entries)
       /\ \A i \in DOMAIN entries :
            SettledFields(entries'[i]) = SettledFields(entries[i])]_vars

====
